---- MODULE Spec2Model ----
(***************************************************************************)
(* State-machine model of the segment-synchronized dub assembly pipeline.  *)
(*                                                                         *)
(*   Spec     the pipeline orchestrator processVideo                       *)
(*            (backend/controllers/processController.js) run for the jobs  *)
(*            that uploadVideo creates, with the control skeleton of the   *)
(*            TTS stage generateTTS.                                       *)
(*   SpecOps  the same runs followed by the resume script                  *)
(*            (backend/resumeVideoAssembly.js) for the job it names.       *)
(*   SpecAsm  one job running the duration lookup of generateTTS and the   *)
(*            timeline assembler generateSegmentBasedTTS over every small  *)
(*            segment list, with clip durations in milliseconds.           *)
(*   SpecConc two jobs running the same code concurrently over the shared  *)
(*            uploads/originals and uploads/temp_audio directories.        *)
(*   SpecCap  generateCaptions of the caption service                      *)
(*            (backend/services/captionService.js) from the timing on,     *)
(*            over small segment lists and durations in microseconds,      *)
(*            run more than once over the same input.                      *)
(*   SpecCapDur the duration lookup of generateCaptions for two jobs.      *)
(*   SpecAsmFair the assembler of SpecAsm for one job under weak fairness. *)
(*   SpecTrans two jobs inside translateText (translation service, kept in *)
(*            transcriptionService.js) sharing the module-level Google     *)
(*            counters while the wall clock advances.                      *)
(*   SpecWrap the cue of one caption segment with breakLongLines applied   *)
(*            to its text, over texts given as sequences of characters.    *)
(*   SpecValidate validateSegments over every small segment list.          *)
(***************************************************************************)
EXTENDS Integers, Sequences, FiniteSets, TLC

\* The concurrent jobs of the model (two uploads being processed).
Jobs == {"jobA", "jobB"}

VARIABLES
    db,             \* job store: one Upload record per job
    pc,             \* position of each job's processVideo run
    cur,            \* index (1..6) of the stage the run is at, 0 before
    started,        \* history: the stages the run started, in order
    returned,       \* history: the stages that returned successfully
    err,            \* the error caught by processVideo's catch block
    stageThrew,     \* history: the error a stage threw in this run
    thrown,         \* the error processVideo rejected with
    failWriteLost,  \* history: the failure write of the catch block threw
    ttsPc,          \* position inside generateTTS while stage 4 executes
    asmFailed,      \* history: generateSegmentBasedTTS/FullTextTTS threw
    originals,      \* uploads/originals: the video files, oldest first
    videoDur,       \* duration (ms) of each job's own source video
    segs,           \* translation.segments of each job (kind of each text)
    synthRange,     \* durations (ms) the synthesizer may produce
    toolFaults,     \* whether ffmpeg/ffprobe/edge-tts may fail on their own
    actualDuration, \* overall target handed to the assembler (ms)
    apc,            \* position of each job inside generateTTS / assembler
    segIndex,       \* loop variable i of the per-segment loop
    segmentAudioFiles, \* the clip list built by the loop
    tempDir,        \* uploads/temp_audio: whether it exists, and its files
    outFile,        \* duration (ms) of <jobId>_translated.wav, -1: absent
    generatedDuration, \* duration measured for the clip being fitted
    segmentError,   \* reason caught by the per-segment catch block
    segFailures,    \* history: <<i, reason>> of every segment-local failure
    concatInput,    \* history: the list handed to concatenateAudioFiles
    asmErr,         \* error generateSegmentBasedTTS threw ("none": none)
    ttsResult,      \* what generateTTS settled with: pending, a path, an error
    outputTemp,     \* <jobId>_translated.wav_temp_adjust is left on disk
    capSegments,    \* number of segments handed to regenerateSegmentTiming
    capDuration,    \* actualDuration handed to it, in microseconds
    syncedSegments, \* the segments it returned (times in microseconds)
    capJob,         \* the job generateCaptions runs for ("none": none)
    capTexts,       \* kind of text of each segment handed to generateCaptions
    capNow,         \* the wall clock read by new Date() in this run
    fpTieUp,        \* floating point: a toFixed(3) tie rounds upwards
    fpLossy,        \* floating point: the segment boundaries whose fraction
                    \* times 1000 falls just below the whole millisecond
    capFiles,       \* the caption files of this job on disk
    capPrev,        \* history: the files as the previous run left them
    capRuns,        \* number of generateCaptions runs that have ended
    capResult,      \* how the current run ended ("pending": it has not)
    resumePc,       \* position of the resumeVideoAssembly script
    now,            \* the wall clock of the server, in hours
    dailyGoogleTranslations, \* module-level count of Google requests today
    lastResetDate,  \* module-level: the day the count was last reset
    googleBlocked,  \* module-level: Google answered with a rate limit
    blockUntil,     \* module-level: the hour the block ends (NoBlock: null)
    requestAtLimit, \* history: a Google request was issued at a full count
    tpc,            \* position of each job inside translateText
    trCase,         \* what the job hands to translateText
    trIn,           \* transcription.segments of each job
    trOut,          \* translatedSegments built so far
    trIdx,          \* loop index i of the Google segment loop
    trErr,          \* the error the job's translateText holds or threw
    trService,      \* translation_service of the returned translation
    wrapSegment,    \* the segment whose text goes to breakLongLines
    wrapCue,        \* the cue generateWebVTT built from it
    valSegments,    \* the argument of validateSegments
    valResult       \* its return value

orchVars == <<db, pc, cur, started, returned, err, stageThrew, thrown,
              failWriteLost, ttsPc, asmFailed>>

asmVars == <<originals, videoDur, segs, synthRange, toolFaults,
             ttsResult, outputTemp, actualDuration, apc,
             segIndex, segmentAudioFiles, tempDir, outFile, generatedDuration,
             segmentError, segFailures, concatInput, asmErr>>

vars == <<db, pc, cur, started, returned, err, stageThrew, thrown,
          failWriteLost, ttsPc, asmFailed, originals, videoDur, segs,
          synthRange, toolFaults, actualDuration, apc, segIndex, segmentAudioFiles,
          tempDir, outFile, generatedDuration, segmentError, segFailures,
          concatInput, asmErr, ttsResult, outputTemp,
          capSegments, capDuration, syncedSegments, capJob, capTexts,
          capNow, fpTieUp, fpLossy, capFiles, capPrev, capRuns, capResult,
          resumePc, now, dailyGoogleTranslations, lastResetDate, googleBlocked,
          blockUntil, requestAtLimit, tpc, trCase, trIn, trOut, trIdx, trErr,
          trService, wrapSegment, wrapCue, valSegments, valResult>>

trVars == <<now, dailyGoogleTranslations, lastResetDate, googleBlocked,
            blockUntil, requestAtLimit, tpc, trCase, trIn, trOut, trIdx, trErr,
            trService>>

utilVars == <<wrapSegment, wrapCue, valSegments, valResult>>

capVars == <<capSegments, capDuration, syncedSegments, capJob, capTexts,
             capNow, fpTieUp, fpLossy, capFiles, capPrev, capRuns, capResult>>

----------------------------------------------------------------------------
(* Orchestrator: processController.js                                      *)

NumStages == 6

\* processing_step written before stage k starts (k = 7: after the last).
StepName(k) ==
    CASE k = 1 -> "audio_extraction"
      [] k = 2 -> "transcription"
      [] k = 3 -> "translation"
      [] k = 4 -> "tts_generation"
      [] k = 5 -> "caption_generation"
      [] k = 6 -> "video_assembly"
      [] OTHER -> "completed"

\* Timestamp fields written together with the step that follows stage k.
StageStamps(k) ==
    CASE k = 1 -> {}
      [] k = 2 -> {"transcription_completed_at"}
      [] k = 3 -> {"translation_completed_at"}
      [] k = 4 -> {"tts_completed_at"}
      [] k = 5 -> {"captions_completed_at"}
      [] OTHER -> {"completed_at", "video_assembly_completed_at"}

\* Artifact fields written together with the step that follows stage k.
StageArtifacts(k) ==
    CASE k = 3 -> {"translatedText"}
      [] k = 4 -> {"tts_audio_path"}
      [] k = 5 -> {"caption_file_path", "caption_srt_path",
                   "transcript_file_path"}
      [] k = 6 -> {"processed_file_path"}
      [] OTHER -> {}

NoError == [kind |-> "none", at |-> 0]
StageError(k) == [kind |-> "stage", at |-> k]
DbError(k) == [kind |-> "db", at |-> k]

\* Entries of errorMessages written outside the catch block of processVideo:
\* by the catch block of stage k, and by the resume script.
StageNote(k) == [kind |-> "stage_note", at |-> k]
ResumeNote == [kind |-> "resume_completed", at |-> 6]
ResumeError == [kind |-> "resume_failed", at |-> 6]

NoRecord ==
    [status |-> "none", step |-> "unset", errorMessages |-> <<>>,
     stamps |-> {}, artifacts |-> {}, errorFields |-> {}]

\* The stages whose own catch block writes to the job store before it
\* rethrows: extractAudio, transcribeAudio, translateText.
HandlerStages == {1, 2, 3}

\* The fields the catch block of stage k writes next to its errorMessages
\* entry.
StageErrorFields(k) ==
    CASE k = 1 -> {"audioExtracted"}
      [] k = 2 -> {"transcription_error", "transcription_failed_at",
                   "transcription_service"}
      [] k = 3 -> {"translation_error", "translation_failed_at",
                   "translation_service"}
      [] OTHER -> {}

\* uploadVideo: saves the Upload record and starts processVideo.
UploadVideo(j) ==
    /\ UNCHANGED <<asmVars, capVars, trVars, utilVars, resumePc>>
    /\ pc[j] = "idle"
    /\ db' = [db EXCEPT ![j] = [NoRecord EXCEPT !.status = "uploaded"]]
    /\ pc' = [pc EXCEPT ![j] = "mark"]
    /\ UNCHANGED <<cur, started, returned, err, stageThrew, thrown,
                   failWriteLost, ttsPc, asmFailed>>

\* What starting stage k does to the run (the call that follows the awaited
\* job-store write).
StartStage(j, k) ==
    /\ pc' = [pc EXCEPT ![j] = "stage"]
    /\ cur' = [cur EXCEPT ![j] = k]
    /\ started' = [started EXCEPT ![j] = Append(@, k)]
    /\ ttsPc' = [ttsPc EXCEPT ![j] = IF k = 4 THEN "try" ELSE "none"]

\* An awaited job-store write threw: control goes to the catch block.
WriteThrows(j, k) ==
    /\ err' = [err EXCEPT ![j] = DbError(k)]
    /\ pc' = [pc EXCEPT ![j] = "catch"]
    /\ UNCHANGED <<db, cur, started, ttsPc>>

\* First write of processVideo, then extractAudio is started.
MarkProcessingStarted(j) ==
    /\ UNCHANGED <<asmVars, capVars, trVars, utilVars, resumePc>>
    /\ pc[j] = "mark"
    /\ \E ok \in BOOLEAN :
         IF ok
         THEN /\ db' = [db EXCEPT ![j].status = "processing",
                                  ![j].step = StepName(1),
                                  ![j].stamps = @ \cup {"processing_started_at"}]
              /\ StartStage(j, 1)
              /\ UNCHANGED err
         ELSE WriteThrows(j, 0)
    /\ UNCHANGED <<returned, stageThrew, thrown, failWriteLost, asmFailed>>

\* Completion timestamps a stage service writes itself before it resolves:
\* transcribeAudio, translateText and assembleVideoWithCaptions do.
StageOwnStamps(k) ==
    CASE k = 2 -> {"transcription_completed_at"}
      [] k = 3 -> {"translation_completed_at"}
      [] k = 6 -> {"video_assembly_completed_at"}
      [] OTHER -> {}

\* Result fields a stage service writes itself before it resolves.
StageOwnArtifacts(k) ==
    CASE k = 1 -> {"audioOutputPath"}
      [] k = 2 -> {"transcript_file_path"}
      [] k = 3 -> {"translated_text"}
      [] k = 6 -> {"processed_file_path"}
      [] OTHER -> {}

\* A stage other than generateTTS resolves, after it saved its own results
\* to the job store (extractAudio swallows a failure of that write;
\* generateCaptions writes nothing).
StageReturns(j) ==
    /\ UNCHANGED <<asmVars, capVars, trVars, utilVars, resumePc>>
    /\ pc[j] = "stage"
    /\ cur[j] # 4
    /\ \E saved \in (IF cur[j] = 1 THEN BOOLEAN ELSE {TRUE}) :
         db' = IF saved
               THEN [db EXCEPT
                       ![j].stamps = @ \cup StageOwnStamps(cur[j]),
                       ![j].artifacts = @ \cup StageOwnArtifacts(cur[j])]
               ELSE db
    /\ returned' = [returned EXCEPT ![j] = @ \cup {cur[j]}]
    /\ pc' = [pc EXCEPT ![j] = "advance"]
    /\ UNCHANGED <<cur, started, err, stageThrew, thrown, failWriteLost,
                   ttsPc, asmFailed>>

\* A stage other than generateTTS rejects. When the error passes through
\* the stage's own catch block, that block first tries to save the error
\* (a job-store error of that write is swallowed) and rethrows.
StageThrows(j) ==
    /\ UNCHANGED <<asmVars, capVars, trVars, utilVars, resumePc>>
    /\ pc[j] = "stage"
    /\ cur[j] # 4
    /\ \E saved \in (IF cur[j] \in HandlerStages THEN BOOLEAN ELSE {FALSE}) :
         db' = IF saved
               THEN [db EXCEPT
                       ![j].errorFields = @ \cup StageErrorFields(cur[j]),
                       ![j].errorMessages = Append(@, StageNote(cur[j]))]
               ELSE db
    /\ err' = [err EXCEPT ![j] = StageError(cur[j])]
    /\ stageThrew' = [stageThrew EXCEPT ![j] = StageError(cur[j])]
    /\ pc' = [pc EXCEPT ![j] = "catch"]
    /\ UNCHANGED <<cur, started, returned, thrown, failWriteLost, ttsPc,
                   asmFailed>>

\* Outcomes of the body of generateTTS's try block.
TtsOutcomes == {"returned", "invalid", "unsupported", "probe_failed",
                "assembly_failed"}

\* generateTTS, try block: validation, duration probe, voice lookup and the
\* call of generateSegmentBasedTTS / generateFullTextTTS.  Everything but a
\* normal return ends in createEnhancedTTSFallback.
GenerateTTS(j) ==
    /\ UNCHANGED <<asmVars, capVars, trVars, utilVars, resumePc>>
    /\ pc[j] = "stage"
    /\ cur[j] = 4
    /\ ttsPc[j] = "try"
    /\ \E r \in TtsOutcomes :
         IF r = "returned"
         THEN /\ returned' = [returned EXCEPT ![j] = @ \cup {4}]
              /\ pc' = [pc EXCEPT ![j] = "advance"]
              /\ ttsPc' = [ttsPc EXCEPT ![j] = "none"]
              /\ UNCHANGED asmFailed
         ELSE /\ ttsPc' = [ttsPc EXCEPT ![j] = "fallback"]
              /\ asmFailed' = [asmFailed EXCEPT ![j] = (r = "assembly_failed")]
              /\ UNCHANGED <<returned, pc>>
    /\ UNCHANGED <<db, cur, started, err, stageThrew, thrown, failWriteLost>>

\* createEnhancedTTSFallback: a silent track stands in for the dub; only when
\* the silence cannot be created does generateTTS reject.
CreateEnhancedTTSFallback(j) ==
    /\ UNCHANGED <<asmVars, capVars, trVars, utilVars, resumePc>>
    /\ pc[j] = "stage"
    /\ cur[j] = 4
    /\ ttsPc[j] = "fallback"
    /\ ttsPc' = [ttsPc EXCEPT ![j] = "none"]
    /\ \E silenceOk \in BOOLEAN :
         IF silenceOk
         THEN /\ returned' = [returned EXCEPT ![j] = @ \cup {4}]
              /\ pc' = [pc EXCEPT ![j] = "advance"]
              /\ UNCHANGED <<err, stageThrew>>
         ELSE /\ err' = [err EXCEPT ![j] = StageError(4)]
              /\ stageThrew' = [stageThrew EXCEPT ![j] = StageError(4)]
              /\ pc' = [pc EXCEPT ![j] = "catch"]
              /\ UNCHANGED returned
    /\ UNCHANGED <<db, cur, started, thrown, failWriteLost, asmFailed>>

\* Faulty variant of AdvanceStep: the step write is fired but not awaited, so the next
\* stage starts whether or not the write has been applied.
AdvanceStep_NotAwaited(j) ==
    /\ UNCHANGED <<asmVars, capVars, trVars, utilVars, resumePc>>
    /\ pc[j] = "advance"
    /\ cur[j] < NumStages
    /\ \E ok \in BOOLEAN :
         db' = IF ok
               THEN [db EXCEPT
                       ![j].step = StepName(cur[j] + 1),
                       ![j].stamps = @ \cup StageStamps(cur[j]),
                       ![j].artifacts = @ \cup StageArtifacts(cur[j])]
               ELSE db
    /\ StartStage(j, cur[j] + 1)
    /\ UNCHANGED <<err, returned, stageThrew, thrown, failWriteLost, asmFailed>>

\* The awaited write after stage k < 6 succeeded, then stage k+1 is started.
AdvanceStep(j) ==
    /\ UNCHANGED <<asmVars, capVars, trVars, utilVars, resumePc>>
    /\ pc[j] = "advance"
    /\ cur[j] < NumStages
    /\ \E ok \in BOOLEAN :
         IF ok
         THEN /\ db' = [db EXCEPT
                    ![j].step = StepName(cur[j] + 1),
                    ![j].stamps = @ \cup StageStamps(cur[j]),
                    ![j].artifacts = @ \cup StageArtifacts(cur[j])]
              /\ StartStage(j, cur[j] + 1)
              /\ UNCHANGED err
         ELSE WriteThrows(j, cur[j])
    /\ UNCHANGED <<returned, stageThrew, thrown, failWriteLost, asmFailed>>

\* After the last stage: read processing_started_at, write status completed.
MarkCompleted(j) ==
    /\ UNCHANGED <<asmVars, capVars, trVars, utilVars, resumePc>>
    /\ pc[j] = "advance"
    /\ cur[j] = NumStages
    /\ \E ok \in BOOLEAN :
         IF ok
         THEN /\ db' = [db EXCEPT
                    ![j].status = "completed",
                    ![j].step = StepName(NumStages + 1),
                    ![j].stamps = @ \cup StageStamps(NumStages),
                    ![j].artifacts = @ \cup StageArtifacts(NumStages)]
              /\ pc' = [pc EXCEPT ![j] = "done"]
              /\ UNCHANGED <<err, cur, started, ttsPc>>
         ELSE WriteThrows(j, NumStages)
    /\ UNCHANGED <<returned, stageThrew, thrown, failWriteLost, asmFailed>>

\* The step value the failure write stores.
FailureStep(j) == "failed"

\* Faulty variant of HandleFailure: the failure write stores the error
\* message as the whole list instead of pushing it.
HandleFailure_SetsErrorList(j) ==
    /\ UNCHANGED <<asmVars, capVars, trVars, utilVars, resumePc>>
    /\ pc[j] = "catch"
    /\ \E ok \in BOOLEAN :
         IF ok
         THEN /\ db' = [db EXCEPT
                    ![j].status = "failed",
                    ![j].step = FailureStep(j),
                    ![j].stamps = @ \cup {"failed_at"},
                    ![j].errorMessages = <<err[j]>>]
              /\ UNCHANGED failWriteLost
         ELSE /\ failWriteLost' = [failWriteLost EXCEPT ![j] = TRUE]
              /\ UNCHANGED db
    /\ thrown' = [thrown EXCEPT ![j] = err[j]]
    /\ pc' = [pc EXCEPT ![j] = "rejected"]
    /\ UNCHANGED <<cur, started, returned, err, stageThrew, ttsPc, asmFailed>>

\* Faulty variant of HandleFailure: the failure write replaces the record's
\* artifact fields and completion timestamps.
HandleFailure_ResetsArtifacts(j) ==
    /\ UNCHANGED <<asmVars, capVars, trVars, utilVars, resumePc>>
    /\ pc[j] = "catch"
    /\ \E ok \in BOOLEAN :
         IF ok
         THEN /\ db' = [db EXCEPT
                    ![j].status = "failed",
                    ![j].step = FailureStep(j),
                    ![j].stamps = {"failed_at"},
                    ![j].artifacts = {},
                    ![j].errorMessages = Append(@, err[j])]
              /\ UNCHANGED failWriteLost
         ELSE /\ failWriteLost' = [failWriteLost EXCEPT ![j] = TRUE]
              /\ UNCHANGED db
    /\ thrown' = [thrown EXCEPT ![j] = err[j]]
    /\ pc' = [pc EXCEPT ![j] = "rejected"]
    /\ UNCHANGED <<cur, started, returned, err, stageThrew, ttsPc, asmFailed>>

\* Faulty variant of HandleFailure: no inner try/catch around the failure write, so a
\* job-store error replaces the stage's error.
HandleFailure_ThrowsDbError(j) ==
    /\ UNCHANGED <<asmVars, capVars, trVars, utilVars, resumePc>>
    /\ pc[j] = "catch"
    /\ \E ok \in BOOLEAN :
         IF ok
         THEN /\ db' = [db EXCEPT
                    ![j].status = "failed",
                    ![j].step = FailureStep(j),
                    ![j].stamps = @ \cup {"failed_at"},
                    ![j].errorMessages = Append(@, err[j])]
              /\ thrown' = [thrown EXCEPT ![j] = err[j]]
              /\ UNCHANGED failWriteLost
         ELSE /\ failWriteLost' = [failWriteLost EXCEPT ![j] = TRUE]
              /\ thrown' = [thrown EXCEPT ![j] = DbError(7)]
              /\ UNCHANGED db
    /\ pc' = [pc EXCEPT ![j] = "rejected"]
    /\ UNCHANGED <<cur, started, returned, err, stageThrew, ttsPc, asmFailed>>

\* catch block of processVideo: try to persist the failure, swallow a
\* job-store error of that write, rethrow the caught error.
HandleFailure(j) ==
    /\ UNCHANGED <<asmVars, capVars, trVars, utilVars, resumePc>>
    /\ pc[j] = "catch"
    /\ \E ok \in BOOLEAN :
         IF ok
         THEN /\ db' = [db EXCEPT
                    ![j].status = "failed",
                    ![j].step = FailureStep(j),
                    ![j].stamps = @ \cup {"failed_at"},
                    ![j].errorMessages = Append(@, err[j])]
              /\ UNCHANGED failWriteLost
         ELSE /\ failWriteLost' = [failWriteLost EXCEPT ![j] = TRUE]
              /\ UNCHANGED db
    /\ thrown' = [thrown EXCEPT ![j] = err[j]]
    /\ pc' = [pc EXCEPT ![j] = "rejected"]
    /\ UNCHANGED <<cur, started, returned, err, stageThrew, ttsPc, asmFailed>>

----------------------------------------------------------------------------
(* Resume script: resumeVideoAssembly.js, run by hand for one job after    *)
(* its processVideo run has ended.                                         *)

\* The job the script is written for (its JOB_ID).
ResumeJob == "jobA"

\* The path fields the script rewrites before it assembles the video.
ResumeArtifacts ==
    {"original_file_path", "tts_audio_path", "caption_file_path",
     "caption_srt_path", "transcript_file_path"}

\* Up to the first write: connect, find the job, locate the files, store
\* their paths with status processing and step video_assembly. A missing
\* job or file, or a failing write, ends in the catch block.
ResumePrepare ==
    /\ UNCHANGED <<asmVars, capVars, trVars, utilVars>>
    /\ resumePc = "idle"
    /\ pc[ResumeJob] \in {"rejected", "done"}
    /\ \E r \in {"ready", "missing", "write_threw"} :
         IF r = "ready"
         THEN /\ db' = [db EXCEPT
                    ![ResumeJob].status = "processing",
                    ![ResumeJob].step = StepName(NumStages),
                    ![ResumeJob].stamps = @ \cup {"video_assembly_started_at"},
                    ![ResumeJob].artifacts = @ \cup ResumeArtifacts]
              /\ resumePc' = "assemble"
         ELSE /\ UNCHANGED db
              /\ resumePc' = "catch"
    /\ UNCHANGED <<pc, cur, started, returned, err, stageThrew, thrown,
                   failWriteLost, ttsPc, asmFailed>>

\* assembleVideoWithCaptions and the completion write, which also pushes a
\* note onto errorMessages.
ResumeAssemble ==
    /\ UNCHANGED <<asmVars, capVars, trVars, utilVars>>
    /\ resumePc = "assemble"
    /\ \E r \in {"completed", "assembly_threw", "write_threw"} :
         IF r = "completed"
         THEN /\ db' = [db EXCEPT
                    ![ResumeJob].status = "completed",
                    ![ResumeJob].step = StepName(NumStages + 1),
                    ![ResumeJob].stamps = @ \cup StageStamps(NumStages),
                    ![ResumeJob].artifacts = @ \cup StageArtifacts(NumStages),
                    ![ResumeJob].errorMessages = Append(@, ResumeNote)]
              /\ resumePc' = "exited"
         ELSE /\ UNCHANGED db
              /\ resumePc' = "catch"
    /\ UNCHANGED <<pc, cur, started, returned, err, stageThrew, thrown,
                   failWriteLost, ttsPc, asmFailed>>

\* catch block of the script: try to persist the failure, then exit.
ResumeCatch ==
    /\ UNCHANGED <<asmVars, capVars, trVars, utilVars>>
    /\ resumePc = "catch"
    /\ \E ok \in BOOLEAN :
         db' = IF ok
               THEN [db EXCEPT
                       ![ResumeJob].status = "failed",
                       ![ResumeJob].step = "video_assembly_failed",
                       ![ResumeJob].stamps = @ \cup {"failed_at"},
                       ![ResumeJob].errorMessages = Append(@, ResumeError)]
               ELSE db
    /\ resumePc' = "exited"
    /\ UNCHANGED <<pc, cur, started, returned, err, stageThrew, thrown,
                   failWriteLost, ttsPc, asmFailed>>

----------------------------------------------------------------------------
(* TTS service: duration lookup of generateTTS and generateSegmentBasedTTS *)
(* (services/ttsService.js, kept in transcriptionService.js from 3203 on). *)
(* Durations are integers in milliseconds.                                 *)

\* Longest segment list of the model.
MaxSegments == 2

\* Kinds of segment text: spoken text, empty or whitespace-only text, and a
\* segment without a text property.
TextKinds == {"text", "empty", "missing"}

\* Probed durations (ms) of the source videos that get uploaded.
VideoDurations == {5000, 6400, 59600}

\* Durations (ms) the synthesizer may produce for one clip.
SynthDurations == {3000, 3400, 6000, 15000, 62000}

\* Tolerances and tempo limits of the service.
SegmentToleranceMs == 500
FinalToleranceMs == 1500
FinalMinimumMs == 500
DeadBandPermille == 50
MinTempoTenths == 5
MaxTempoTenths == 20
DefaultDurationMs == 30000

\* Outcomes of a call of an external tool: it works, or (when tools may fail
\* on their own) it exits with an error or times out.
ToolOutcomes == IF toolFaults THEN BOOLEAN ELSE {TRUE}

Abs(x) == IF x < 0 THEN -x ELSE x

SeqSum(q) ==
    LET F[k \in 0..Len(q)] == IF k = 0 THEN 0 ELSE F[k - 1] + q[k]
    IN  F[Len(q)]

\* Math.round of a duration in seconds, on milliseconds.
RoundToSecond(ms) == ((ms + 500) \div 1000) * 1000

\* File names.
HardcodedVideo == <<"1758761895481.mp4", "developer">>
JobIdVideo(j) == <<"jobId.mp4", j>>
UploadName(j) == <<"upload", j>>
SegmentFile(j, i) == <<j, i, "segment">>
SilenceFile(j, i) == <<j, i, "silence">>
FileList(j) == <<j, -1, "filelist">>
TranslatedAudio(j) == <<"translated_audio", j>>

\* The scratch directory uploads/temp_audio.
NoDir == [exists |-> FALSE, files |-> <<>>]
HasFile(dir, f) == dir.exists /\ f \in DOMAIN dir.files
MkDir(dir) == IF dir.exists THEN dir ELSE [exists |-> TRUE, files |-> <<>>]
WriteFile(dir, f, d) ==
    [exists |-> TRUE,
     files |-> [x \in DOMAIN dir.files \cup {f} |->
                   IF x = f THEN d ELSE dir.files[x]]]
Unlink(dir, f) ==
    [dir EXCEPT !.files = IF DOMAIN dir.files \ {f} = {} THEN <<>>
                          ELSE [x \in DOMAIN dir.files \ {f} |-> dir.files[x]]]
\* fs.rmSync(tempDir, {recursive: true, force: true})
RmDirRecursive(dir) == NoDir
\* The directory without the files of the set gone.
RemoveFiles(dir, gone) ==
    [dir EXCEPT !.files = IF DOMAIN dir.files \ gone = {} THEN <<>>
                          ELSE [x \in DOMAIN dir.files \ gone |-> dir.files[x]]]

\* Values generateTTS settles with: the path of the track, or an error.
Pending == [status |-> "pending"]
Returned(j) == [status |-> "returned", path |-> TranslatedAudio(j)]
Threw == [status |-> "threw"]

\* multer stored the upload of job j in uploads/originals.
StoreUpload(j) ==
    /\ UNCHANGED <<orchVars, capVars, trVars, utilVars, resumePc>>
    /\ apc[j] = "idle"
    /\ originals' = Append(originals,
                           [name |-> UploadName(j), dur |-> videoDur[j]])
    /\ apc' = [apc EXCEPT ![j] = "resolve"]
    /\ UNCHANGED <<videoDur, segs, synthRange, toolFaults, ttsResult, outputTemp, actualDuration, segIndex,
                   segmentAudioFiles, tempDir, outFile, generatedDuration,
                   segmentError, segFailures, concatInput, asmErr>>

\* The video file generateTTS measures for job j: <jobId>.mp4, else the
\* hard-coded file, else the most recently modified video of the directory.
OriginalVideoPath(j) ==
    LET named(n) == {k \in 1..Len(originals) : originals[k].name = n}
    IN  IF named(JobIdVideo(j)) # {} THEN CHOOSE k \in named(JobIdVideo(j)) : TRUE
        ELSE IF named(HardcodedVideo) # {}
             THEN CHOOSE k \in named(HardcodedVideo) : TRUE
        ELSE Len(originals)

\* generateTTS, duration lookup: the probe (getVideoDurationDirect) rounds to
\* whole seconds; a failing probe ends in generateTTS's catch block.
ResolveVideoDuration(j) ==
    /\ UNCHANGED <<orchVars, capVars, trVars, utilVars, resumePc>>
    /\ apc[j] = "resolve"
    /\ LET k == OriginalVideoPath(j) IN
         IF k = 0
         THEN /\ actualDuration' = [actualDuration EXCEPT ![j] = DefaultDurationMs]
              /\ apc' = [apc EXCEPT ![j] = "begin"]
         ELSE \E ok \in ToolOutcomes :
                IF ok
                THEN /\ actualDuration' = [actualDuration EXCEPT
                                             ![j] = RoundToSecond(originals[k].dur)]
                     /\ apc' = [apc EXCEPT ![j] = "begin"]
                ELSE /\ apc' = [apc EXCEPT ![j] = "fallback_track"]
                     /\ UNCHANGED actualDuration
    /\ UNCHANGED <<originals, videoDur, segs, synthRange, toolFaults, ttsResult, outputTemp, segIndex,
                   segmentAudioFiles, tempDir, outFile, generatedDuration,
                   segmentError, segFailures, concatInput, asmErr>>

\* Faulty variant of SegmentDuration: the overall target is not divided.
SegmentDuration_Undivided(j) == actualDuration[j]

\* segmentDuration: equal share of the target per segment.
SegmentDuration(j) == actualDuration[j] \div Len(segs[j])

\* Loop condition and the branch on the text of segment i.
SegmentBranch(j, i) ==
    IF i >= Len(segs[j]) THEN "concat"
    ELSE IF segs[j][i + 1] = "missing" THEN "catch"
    ELSE IF segs[j][i + 1] = "empty" THEN "silence"
    ELSE "synth"

\* Error of the branch: segment.text.substring on a missing text.
BranchError(j, i) ==
    IF SegmentBranch(j, i) = "catch" THEN "type_error" ELSE asmErr[j]

\* generateSegmentBasedTTS up to the first segment: creates the directory.
BeginAssembly(j) ==
    /\ UNCHANGED <<orchVars, capVars, trVars, utilVars, resumePc>>
    /\ apc[j] = "begin"
    /\ Len(segs[j]) > 0
    /\ tempDir' = MkDir(tempDir)
    /\ segIndex' = [segIndex EXCEPT ![j] = 0]
    /\ segmentAudioFiles' = [segmentAudioFiles EXCEPT ![j] = <<>>]
    /\ apc' = [apc EXCEPT ![j] = SegmentBranch(j, 0)]
    /\ asmErr' = [asmErr EXCEPT ![j] = BranchError(j, 0)]
    /\ UNCHANGED <<originals, videoDur, segs, synthRange, toolFaults, ttsResult, outputTemp,
                   actualDuration,
                   outFile, generatedDuration, segmentError, segFailures,
                   concatInput>>

\* Faulty variant of PushClip: unshift instead of push.
PushClip_Unshift(list, clip) == <<clip>> \o list

\* segmentAudioFiles.push(clip)
PushClip(list, clip) == Append(list, clip)

RealClip(j, i, orig) ==
    [file |-> SegmentFile(j, i), duration |-> SegmentDuration(j),
     isSilence |-> FALSE, segmentIndex |-> i, fallbackReason |-> "none",
     originalDuration |-> orig]

SilenceClip(j, i, reason) ==
    [file |-> SilenceFile(j, i), duration |-> SegmentDuration(j),
     isSilence |-> TRUE, segmentIndex |-> i, fallbackReason |-> reason,
     originalDuration |-> -1]

\* The clip of segment i is pushed and the loop goes on with segment i+1.
PushAndContinue(j, clip) ==
    /\ segmentAudioFiles' = [segmentAudioFiles EXCEPT ![j] = PushClip(@, clip)]
    /\ segIndex' = [segIndex EXCEPT ![j] = @ + 1]
    /\ apc' = [apc EXCEPT ![j] = SegmentBranch(j, segIndex[j] + 1)]
    /\ asmErr' = [asmErr EXCEPT ![j] = BranchError(j, segIndex[j] + 1)]

\* Faulty variant of SegmentFails: no try/catch around the fitting of one segment, so
\* the failure reaches the outer catch block.
SegmentFails_NotCaught(j, reason) ==
    /\ segmentError' = [segmentError EXCEPT ![j] = reason]
    /\ segFailures' = [segFailures EXCEPT ![j] = @ \cup {<<segIndex[j], reason>>}]
    /\ apc' = [apc EXCEPT ![j] = "catch"]
    /\ asmErr' = [asmErr EXCEPT ![j] = reason]
    /\ UNCHANGED <<segIndex, segmentAudioFiles>>

\* A failure inside the per-segment try block is caught by its catch block.
SegmentFails(j, reason) ==
    /\ segmentError' = [segmentError EXCEPT ![j] = reason]
    /\ segFailures' = [segFailures EXCEPT ![j] = @ \cup {<<segIndex[j], reason>>}]
    /\ apc' = [apc EXCEPT ![j] = "fallback"]
    /\ UNCHANGED <<segIndex, segmentAudioFiles, asmErr>>

\* Faulty variant of GenerateSingleSegmentTTS: exec is called without a
\* timeout, so a run whose tools may stall gets no outcome of the call.
GenerateSingleSegmentTTS_NoTimeout(j) ==
    /\ UNCHANGED <<orchVars, capVars, trVars, utilVars, resumePc>>
    /\ apc[j] = "synth"
    /\ ~toolFaults
    /\ \E d \in synthRange :
         /\ tempDir.exists
         /\ tempDir' = WriteFile(tempDir, SegmentFile(j, segIndex[j]), d)
         /\ apc' = [apc EXCEPT ![j] = "measure"]
         /\ UNCHANGED <<segIndex, segmentAudioFiles, asmErr,
                        segmentError, segFailures>>
    /\ UNCHANGED <<originals, videoDur, segs, synthRange, toolFaults, ttsResult, outputTemp,
                   actualDuration,
                   outFile, generatedDuration, concatInput>>

\* generateSingleSegmentTTS: edge-tts writes the clip of segment i; exec
\* carries a timeout of 45 s, and running into it is an error of the call.
GenerateSingleSegmentTTS(j) ==
    /\ UNCHANGED <<orchVars, capVars, trVars, utilVars, resumePc>>
    /\ apc[j] = "synth"
    /\ \E ok \in ToolOutcomes, d \in synthRange :
         IF ok /\ tempDir.exists
         THEN /\ tempDir' = WriteFile(tempDir, SegmentFile(j, segIndex[j]), d)
              /\ apc' = [apc EXCEPT ![j] = "measure"]
              /\ UNCHANGED <<segIndex, segmentAudioFiles, asmErr,
                             segmentError, segFailures>>
         ELSE /\ SegmentFails(j, "synthesis")
              /\ UNCHANGED tempDir
    /\ UNCHANGED <<originals, videoDur, segs, synthRange, toolFaults, ttsResult, outputTemp,
                   actualDuration,
                   outFile, generatedDuration, concatInput>>

\* getAudioDuration of the fresh clip and the decision to adjust it.
MeasureSegment(j) ==
    /\ UNCHANGED <<orchVars, capVars, trVars, utilVars, resumePc>>
    /\ apc[j] = "measure"
    /\ LET f == SegmentFile(j, segIndex[j]) IN
       \E ok \in ToolOutcomes :
         IF ok /\ HasFile(tempDir, f)
         THEN /\ generatedDuration' = [generatedDuration EXCEPT
                                         ![j] = tempDir.files[f]]
              /\ IF Abs(tempDir.files[f] - SegmentDuration(j)) > SegmentToleranceMs
                 THEN /\ apc' = [apc EXCEPT ![j] = "adjust"]
                      /\ UNCHANGED <<segIndex, segmentAudioFiles, asmErr>>
                 ELSE PushAndContinue(j, RealClip(j, segIndex[j], tempDir.files[f]))
              /\ UNCHANGED <<segmentError, segFailures>>
         ELSE /\ SegmentFails(j, "measurement")
              /\ UNCHANGED generatedDuration
    /\ UNCHANGED <<originals, videoDur, segs, synthRange, toolFaults, ttsResult, outputTemp,
                   actualDuration,
                   tempDir, outFile, concatInput>>

\* Faulty variant of AdjustedDuration: the ratio is not clamped, the clip
\* always lands on the target.
AdjustedDuration_Unclamped(current, targetDuration) ==
    IF Abs(current - targetDuration) * 1000 < DeadBandPermille * targetDuration
    THEN current
    ELSE targetDuration

\* Duration after adjustAudioDuration: ratio current/target, no change
\* within 5 percent, else atempo with the ratio clamped into [0.5, 2.0].
AdjustedDuration(current, targetDuration) ==
    IF Abs(current - targetDuration) * 1000 < DeadBandPermille * targetDuration
    THEN current
    ELSE IF current * 10 < MinTempoTenths * targetDuration
         THEN (current * 10) \div MinTempoTenths
    ELSE IF current * 10 > MaxTempoTenths * targetDuration
         THEN (current * 10) \div MaxTempoTenths
    ELSE targetDuration

\* adjustAudioDuration of the clip, the verifying probe, and the push.
AdjustSegment(j) ==
    /\ UNCHANGED <<orchVars, capVars, trVars, utilVars, resumePc>>
    /\ apc[j] = "adjust"
    /\ LET f == SegmentFile(j, segIndex[j]) IN
       \E ok \in ToolOutcomes :
         IF ok /\ HasFile(tempDir, f)
         THEN /\ tempDir' = WriteFile(tempDir, f,
                              AdjustedDuration(tempDir.files[f], SegmentDuration(j)))
              /\ PushAndContinue(j, RealClip(j, segIndex[j], generatedDuration[j]))
              /\ UNCHANGED <<segmentError, segFailures>>
         ELSE /\ SegmentFails(j, "adjustment")
              /\ UNCHANGED tempDir
    /\ UNCHANGED <<originals, videoDur, segs, synthRange, toolFaults, ttsResult, outputTemp,
                   actualDuration,
                   outFile, generatedDuration, concatInput>>

\* createSilenceFile for a segment and the push of the placeholder; a failure
\* of ffmpeg here is not caught by the loop.
SilenceStep(j, reason) ==
    /\ \E ok \in ToolOutcomes :
         IF ok /\ tempDir.exists
         THEN /\ tempDir' = WriteFile(tempDir, SilenceFile(j, segIndex[j]),
                                      SegmentDuration(j))
              /\ PushAndContinue(j, SilenceClip(j, segIndex[j], reason))
         ELSE /\ apc' = [apc EXCEPT ![j] = "catch"]
              /\ asmErr' = [asmErr EXCEPT ![j] = "silence"]
              /\ UNCHANGED <<tempDir, segIndex, segmentAudioFiles>>
    /\ UNCHANGED <<originals, videoDur, segs, synthRange, toolFaults, ttsResult, outputTemp,
                   actualDuration,
                   outFile, generatedDuration, segmentError, segFailures,
                   concatInput>>

\* Silence for a segment whose text is empty.
CreateSegmentSilence(j) ==
    /\ UNCHANGED <<orchVars, capVars, trVars, utilVars, resumePc>>
    /\ apc[j] = "silence"
    /\ SilenceStep(j, "none")

\* catch block of the per-segment try: silence in place of the failed clip.
CreateFallbackSilence(j) ==
    /\ UNCHANGED <<orchVars, capVars, trVars, utilVars, resumePc>>
    /\ apc[j] = "fallback"
    /\ SilenceStep(j, segmentError[j])

ClipFiles(list) == [k \in 1..Len(list) |-> list[k].file]

\* concatenateAudioFiles: one file is copied; several are listed in
\* <jobId>_filelist.txt and handed to ffmpeg.
ConcatenateAudioFiles(j) ==
    /\ UNCHANGED <<orchVars, capVars, trVars, utilVars, resumePc>>
    /\ apc[j] = "concat"
    /\ LET files == ClipFiles(segmentAudioFiles[j]) IN
       /\ concatInput' = [concatInput EXCEPT ![j] = files]
       /\ IF Len(files) = 0
          THEN /\ apc' = [apc EXCEPT ![j] = "catch"]
               /\ asmErr' = [asmErr EXCEPT ![j] = "concat"]
               /\ UNCHANGED <<tempDir, outFile>>
          ELSE IF Len(files) = 1
          THEN \E ok \in ToolOutcomes :
                 IF ok /\ HasFile(tempDir, files[1])
                 THEN /\ outFile' = [outFile EXCEPT ![j] = tempDir.files[files[1]]]
                      /\ apc' = [apc EXCEPT ![j] = "verify"]
                      /\ UNCHANGED <<tempDir, asmErr>>
                 ELSE /\ apc' = [apc EXCEPT ![j] = "catch"]
                      /\ asmErr' = [asmErr EXCEPT ![j] = "concat"]
                      /\ UNCHANGED <<tempDir, outFile>>
          ELSE /\ tempDir' = WriteFile(tempDir, FileList(j), 0)
               /\ apc' = [apc EXCEPT ![j] = "concat_run"]
               /\ UNCHANGED <<outFile, asmErr>>
    /\ UNCHANGED <<originals, videoDur, segs, synthRange, toolFaults, ttsResult, outputTemp,
                   actualDuration,
                   segIndex, segmentAudioFiles, generatedDuration,
                   segmentError, segFailures>>

\* Callback of the ffmpeg concat run: the file list is removed, the run
\* succeeded only if the list and every listed clip were there.
ConcatFinished(j) ==
    /\ UNCHANGED <<orchVars, capVars, trVars, utilVars, resumePc>>
    /\ apc[j] = "concat_run"
    /\ tempDir' = IF HasFile(tempDir, FileList(j))
                  THEN Unlink(tempDir, FileList(j)) ELSE tempDir
    /\ \E ok \in ToolOutcomes :
         IF /\ ok
            /\ HasFile(tempDir, FileList(j))
            /\ \A k \in 1..Len(concatInput[j]) : HasFile(tempDir, concatInput[j][k])
         THEN /\ outFile' = [outFile EXCEPT ![j] =
                    SeqSum([k \in 1..Len(concatInput[j]) |->
                               tempDir.files[concatInput[j][k]]])]
              /\ apc' = [apc EXCEPT ![j] = "verify"]
              /\ UNCHANGED asmErr
         ELSE /\ apc' = [apc EXCEPT ![j] = "catch"]
              /\ asmErr' = [asmErr EXCEPT ![j] = "concat"]
              /\ UNCHANGED outFile
    /\ UNCHANGED <<originals, videoDur, segs, synthRange, toolFaults, ttsResult, outputTemp,
                   actualDuration,
                   segIndex, segmentAudioFiles, generatedDuration,
                   segmentError, segFailures, concatInput>>

\* The final adjustment is asked for: not durationPreserved (difference
\* below 1.5 s) and difference above 0.5 s.
NeedsFinalAdjustment(finalDuration, targetDuration) ==
    /\ ~(Abs(finalDuration - targetDuration) < FinalToleranceMs)
    /\ Abs(finalDuration - targetDuration) > FinalMinimumMs

\* getAudioDuration of the assembled track and the decision to correct it.
VerifyFinalDuration(j) ==
    /\ UNCHANGED <<orchVars, capVars, trVars, utilVars, resumePc>>
    /\ apc[j] = "verify"
    /\ \E ok \in ToolOutcomes :
         IF ok
         THEN /\ apc' = [apc EXCEPT ![j] =
                    IF NeedsFinalAdjustment(outFile[j], actualDuration[j])
                    THEN "final_adjust" ELSE "cleanup"]
              /\ UNCHANGED asmErr
         ELSE /\ apc' = [apc EXCEPT ![j] = "catch"]
              /\ asmErr' = [asmErr EXCEPT ![j] = "final_measurement"]
    /\ UNCHANGED <<originals, videoDur, segs, synthRange, toolFaults, ttsResult, outputTemp,
                   actualDuration,
                   segIndex, segmentAudioFiles, tempDir, outFile,
                   generatedDuration, segmentError, segFailures, concatInput>>

\* adjustAudioDuration of the whole track; its failure is only logged.
FinalAdjustment(j) ==
    /\ UNCHANGED <<orchVars, capVars, trVars, utilVars, resumePc>>
    /\ apc[j] = "final_adjust"
    /\ \E ok \in ToolOutcomes :
         /\ outFile' = [outFile EXCEPT ![j] =
                           IF ok THEN AdjustedDuration(@, actualDuration[j]) ELSE @]
         /\ \E left \in (IF ok THEN {FALSE} ELSE BOOLEAN) :
              outputTemp' = [outputTemp EXCEPT ![j] = left]
    /\ apc' = [apc EXCEPT ![j] = "cleanup"]
    /\ UNCHANGED <<originals, videoDur, segs, synthRange, toolFaults, ttsResult,
                   actualDuration,
                   segIndex, segmentAudioFiles, tempDir, generatedDuration,
                   segmentError, segFailures, concatInput, asmErr>>

\* The directory after a job's cleanup: the listed clips are unlinked one by
\* one, then the whole directory is removed; a failure of either is caught
\* and logged.
CleanedUp(dir, list, unlinkOk, rmOk) ==
    IF rmOk THEN RmDirRecursive(dir)
    ELSE IF unlinkOk
         THEN RemoveFiles(dir, {list[k].file : k \in 1..Len(list)})
    ELSE dir

\* Cleanup on the success path, then the path of the track is returned.
CleanupTemporaryFiles(j) ==
    /\ UNCHANGED <<orchVars, capVars, trVars, utilVars, resumePc>>
    /\ apc[j] = "cleanup"
    /\ \E unlinkOk \in ToolOutcomes, rmOk \in ToolOutcomes :
         tempDir' = CleanedUp(tempDir, segmentAudioFiles[j], unlinkOk, rmOk)
    /\ apc' = [apc EXCEPT ![j] = "returned"]
    /\ ttsResult' = [ttsResult EXCEPT ![j] = Returned(j)]
    /\ UNCHANGED <<originals, videoDur, segs, synthRange, toolFaults, outputTemp,
                   actualDuration,
                   segIndex, segmentAudioFiles, outFile, generatedDuration,
                   segmentError, segFailures, concatInput, asmErr>>

\* Outer catch block: cleanup, then the error is rethrown.
CleanupOnError(j) ==
    /\ UNCHANGED <<orchVars, capVars, trVars, utilVars, resumePc>>
    /\ apc[j] = "catch"
    /\ \E unlinkOk \in ToolOutcomes, rmOk \in ToolOutcomes :
         tempDir' = CleanedUp(tempDir, segmentAudioFiles[j], unlinkOk, rmOk)
    /\ apc' = [apc EXCEPT ![j] = "threw"]
    /\ UNCHANGED <<originals, videoDur, segs, synthRange, toolFaults, ttsResult, outputTemp,
                   actualDuration,
                   segIndex, segmentAudioFiles, outFile, generatedDuration,
                   segmentError, segFailures, concatInput, asmErr>>

\* generateFullTextTTS, taken by generateTTS when there are no segments: the
\* whole text is synthesized straight into the output file.
GenerateFullTextTTS(j) ==
    /\ UNCHANGED <<orchVars, capVars, trVars, utilVars, resumePc>>
    /\ apc[j] = "begin"
    /\ Len(segs[j]) = 0
    /\ \E ok \in ToolOutcomes, d \in synthRange :
         IF ok
         THEN /\ outFile' = [outFile EXCEPT ![j] = d]
              /\ apc' = [apc EXCEPT ![j] = "returned_full"]
              /\ ttsResult' = [ttsResult EXCEPT ![j] = Returned(j)]
         ELSE /\ apc' = [apc EXCEPT ![j] = "fallback_track"]
              /\ UNCHANGED <<outFile, ttsResult>>
    /\ UNCHANGED <<originals, videoDur, segs, synthRange, toolFaults, outputTemp,
                   actualDuration, segIndex, segmentAudioFiles, tempDir,
                   generatedDuration, segmentError, segFailures, concatInput,
                   asmErr>>

\* catch block of generateTTS: whatever was thrown, a silent track of the
\* translation's own duration is written to the output path and its path is
\* returned; generateTTS rejects only if that fails too.
GenerateTTSCatch(j) ==
    /\ UNCHANGED <<orchVars, capVars, trVars, utilVars, resumePc>>
    /\ apc[j] \in {"threw", "fallback_track"}
    /\ ttsResult[j] = Pending
    /\ \E ok \in ToolOutcomes :
         IF ok
         THEN /\ outFile' = [outFile EXCEPT ![j] = videoDur[j]]
              /\ ttsResult' = [ttsResult EXCEPT ![j] = Returned(j)]
         ELSE /\ ttsResult' = [ttsResult EXCEPT ![j] = Threw]
              /\ UNCHANGED outFile
    /\ UNCHANGED <<originals, videoDur, segs, synthRange, toolFaults, outputTemp,
                   actualDuration, apc, segIndex, segmentAudioFiles, tempDir,
                   generatedDuration, segmentError, segFailures, concatInput,
                   asmErr>>

\* Segment lists of 0..MaxSegments segments over the given kinds of text.
SegmentLists(kinds) ==
    UNION {[1..n -> kinds] : n \in 0..MaxSegments}

\* The assembler before any upload.
AsmIdle ==
    /\ actualDuration = [j \in Jobs |-> 0]
    /\ segIndex = [j \in Jobs |-> 0]
    /\ segmentAudioFiles = [j \in Jobs |-> <<>>]
    /\ tempDir = NoDir
    /\ outFile = [j \in Jobs |-> -1]
    /\ generatedDuration = [j \in Jobs |-> 0]
    /\ segmentError = [j \in Jobs |-> "none"]
    /\ segFailures = [j \in Jobs |-> {}]
    /\ concatInput = [j \in Jobs |-> <<>>]
    /\ asmErr = [j \in Jobs |-> "none"]
    /\ ttsResult = [j \in Jobs |-> Pending]
    /\ outputTemp = [j \in Jobs |-> FALSE]

\* The orchestrator before any upload.
OrchIdle ==
    /\ db = [j \in Jobs |-> NoRecord]
    /\ pc = [j \in Jobs |-> "idle"]
    /\ cur = [j \in Jobs |-> 0]
    /\ started = [j \in Jobs |-> <<>>]
    /\ returned = [j \in Jobs |-> {}]
    /\ err = [j \in Jobs |-> NoError]
    /\ stageThrew = [j \in Jobs |-> NoError]
    /\ thrown = [j \in Jobs |-> NoError]
    /\ failWriteLost = [j \in Jobs |-> FALSE]
    /\ ttsPc = [j \in Jobs |-> "none"]
    /\ asmFailed = [j \in Jobs |-> FALSE]
    /\ resumePc = "idle"

\* uploads/captions and uploads/transcripts hold no file of the job.
NoCaptionFiles == [written |-> FALSE]

\* No caption timing has been regenerated.
CapIdle ==
    /\ capSegments = 0
    /\ capDuration = 0
    /\ syncedSegments = <<>>
    /\ capJob = "none"
    /\ capTexts = <<>>
    /\ capNow = 0
    /\ fpTieUp = FALSE
    /\ fpLossy = {}
    /\ capFiles = NoCaptionFiles
    /\ capPrev = NoCaptionFiles
    /\ capRuns = 0
    /\ capResult = "pending"

\* blockUntil = null: no block has been set.
NoBlock == -1

\* The hours at which the model reads the wall clock: 15:00, 18:00 and 21:00
\* of one day and 0:00 of the next.
ClockHours == {15, 18, 21, 24}

\* new Date().toDateString() at hour h: the calendar day.
DateString(h) == h \div 24

\* The translation service after the module was loaded, before any call.
TrIdle ==
    /\ now = 15
    /\ dailyGoogleTranslations = 0
    /\ lastResetDate = DateString(15)
    /\ googleBlocked = FALSE
    /\ blockUntil = NoBlock
    /\ requestAtLimit = FALSE
    /\ tpc = [j \in Jobs |-> "absent"]
    /\ trCase = [j \in Jobs |-> "none"]
    /\ trIn = [j \in Jobs |-> <<>>]
    /\ trOut = [j \in Jobs |-> <<>>]
    /\ trIdx = [j \in Jobs |-> 0]
    /\ trErr = [j \in Jobs |-> "none"]
    /\ trService = [j \in Jobs |-> "none"]

\* No cue has been built and validateSegments has not been called.
UtilIdle ==
    /\ wrapSegment = [start |-> 0, end |-> 0, text |-> <<>>]
    /\ wrapCue = [built |-> FALSE]
    /\ valSegments = [isArray |-> TRUE, items |-> <<>>]
    /\ valResult = [called |-> FALSE]

\* The developer's hard-coded video may or may not lie in uploads/originals.
OriginalsAtStart ==
    {<<>>} \cup {<<[name |-> HardcodedVideo, dur |-> d]>> : d \in {12400}}

Init ==
    /\ OrchIdle
    /\ TrIdle
    /\ UtilIdle
    /\ AsmIdle
    /\ CapIdle
    /\ originals = <<>>
    /\ videoDur = [j \in Jobs |-> 6400]
    /\ segs = [j \in Jobs |-> <<"text">>]
    /\ synthRange = SynthDurations
    /\ toolFaults = FALSE
    /\ apc = [j \in Jobs |-> "absent"]

Next ==
    \E j \in Jobs :
        \/ UploadVideo(j)
        \/ MarkProcessingStarted(j)
        \/ StageReturns(j)
        \/ StageThrows(j)
        \/ GenerateTTS(j)
        \/ CreateEnhancedTTSFallback(j)
        \/ AdvanceStep(j)
        \/ MarkCompleted(j)
        \/ HandleFailure(j)

Spec == Init /\ [][Next]_vars

\* The pipeline together with the resume script.
NextOps ==
    \/ Next
    \/ ResumePrepare
    \/ ResumeAssemble
    \/ ResumeCatch

SpecOps == Init /\ [][NextOps]_vars

\* One job (the other never uploads), every segment list, every duration.
InitAsm ==
    /\ OrchIdle
    /\ TrIdle
    /\ UtilIdle
    /\ AsmIdle
    /\ CapIdle
    /\ originals \in OriginalsAtStart
    /\ videoDur \in [Jobs -> VideoDurations]
    /\ videoDur["jobB"] = 6400
    /\ segs \in [Jobs -> SegmentLists(TextKinds)]
    /\ segs["jobB"] = <<"text">>
    /\ synthRange = SynthDurations
    /\ toolFaults = TRUE
    /\ apc = [j \in Jobs |-> IF j = "jobA" THEN "idle" ELSE "absent"]

\* Two jobs whose tools never fail on their own: whatever fails, fails through
\* the other job.
InitConc ==
    /\ OrchIdle
    /\ TrIdle
    /\ UtilIdle
    /\ AsmIdle
    /\ CapIdle
    /\ originals \in OriginalsAtStart
    /\ videoDur = [j \in Jobs |-> IF j = "jobA" THEN 6400 ELSE 59600]
    /\ segs \in [Jobs -> SegmentLists({"text", "empty"})]
    /\ synthRange = {6000}
    /\ toolFaults = FALSE
    /\ apc = [j \in Jobs |-> "idle"]

NextAsm ==
    \E j \in Jobs :
        \/ StoreUpload(j)
        \/ ResolveVideoDuration(j)
        \/ BeginAssembly(j)
        \/ GenerateSingleSegmentTTS(j)
        \/ MeasureSegment(j)
        \/ AdjustSegment(j)
        \/ CreateSegmentSilence(j)
        \/ CreateFallbackSilence(j)
        \/ ConcatenateAudioFiles(j)
        \/ ConcatFinished(j)
        \/ VerifyFinalDuration(j)
        \/ FinalAdjustment(j)
        \/ CleanupTemporaryFiles(j)
        \/ CleanupOnError(j)
        \/ GenerateFullTextTTS(j)
        \/ GenerateTTSCatch(j)

SpecAsm == InitAsm /\ [][NextAsm]_vars

SpecConc == InitConc /\ [][NextAsm]_vars

\* One job with a video of 6.4 s, every segment list, a synthesizer that
\* produces clips of 3 s or 15 s, and tools that may fail or time out.
InitAsmFair ==
    /\ OrchIdle
    /\ TrIdle
    /\ UtilIdle
    /\ AsmIdle
    /\ CapIdle
    /\ originals = <<>>
    /\ videoDur = [j \in Jobs |-> 6400]
    /\ segs \in [Jobs -> SegmentLists(TextKinds)]
    /\ segs["jobB"] = <<"text">>
    /\ synthRange = {3000, 15000}
    /\ toolFaults = TRUE
    /\ apc = [j \in Jobs |-> IF j = "jobA" THEN "idle" ELSE "absent"]

\* The job under the scheduling of the event loop: a callback that is due
\* runs.
SpecAsmFair == InitAsmFair /\ [][NextAsm]_vars /\ WF_vars(NextAsm)

----------------------------------------------------------------------------
(* Caption service: services/captionService.js. Times are integers in      *)
(* microseconds (ffprobe prints six decimals).                             *)

\* Longest segment list handed to regenerateSegmentTiming in the model.
MaxCues == 4

\* Durations (microseconds) generateCaptions may hand over: the probed
\* duration of the dubbed track or of the video, or the default of 30 s.
CaptionDurations ==
    {1000000, 1000001, 2000000, 2500500, 3000000, 3333333, 5000000, 6000000,
     7000500, 7500000, 10000000, 10000001, 12345678, 30000000, 30123456,
     59600000}

\* Faulty variant of RoundMs: the value is cut to whole milliseconds.
RoundMs_Truncate(num, den, tieUp) == (num \div (den * 1000)) * 1000

\* parseFloat((num / den).toFixed(3)): the quotient rounded to the nearest
\* millisecond; a value half-way between two milliseconds goes the way its
\* binary representation falls (tieUp).
RoundMs(num, den, tieUp) ==
    LET q == num \div (den * 1000)
        r == num - q * den * 1000
    IN  IF 2 * r < den * 1000 THEN q * 1000
        ELSE IF 2 * r > den * 1000 THEN (q + 1) * 1000
        ELSE IF tieUp THEN (q + 1) * 1000 ELSE q * 1000

\* The synced segment of the segment at index (0-based) among segmentCount
\* segments: the last one ends at actualDuration itself.
SyncedSegment(index, segmentCount, duration, tieUp) ==
    [start |-> RoundMs(index * duration, segmentCount, tieUp),
     end |-> IF index = segmentCount - 1
             THEN RoundMs(duration, 1, tieUp)
             ELSE RoundMs((index + 1) * duration, segmentCount, tieUp),
     duration |-> RoundMs(duration, segmentCount, tieUp),
     index |-> index + 1,
     timingRegenerated |-> TRUE]

\* regenerateSegmentTiming(originalSegments, actualDuration, jobId)
RegenerateSegmentTiming ==
    /\ capSegments > 0
    /\ capResult = "pending"
    /\ syncedSegments = <<>>
    /\ syncedSegments' = [k \in 1..capSegments |->
                            SyncedSegment(k - 1, capSegments, capDuration, fpTieUp)]
    /\ UNCHANGED <<orchVars, asmVars, trVars, utilVars, resumePc, capSegments, capDuration, capJob, capTexts,
                   capNow, fpTieUp, fpLossy, capFiles, capPrev, capRuns,
                   capResult>>

\* Kinds of segment text handed to generateCaptions: text that survives
\* trimming, and text that is missing, empty or only white space.
CaptionTextKinds == {"text", "empty"}

\* Number of generateCaptions runs over the same input in the model.
MaxCaptionRuns == 2

\* Size checks of generateCaptions on the files it wrote.
CaptionSizeFloor == 50
TranscriptSizeFloor == 10

\* Bytes of the header lines of a WebVTT file and of the frame lines of a
\* transcript that hold no interpolated value (the lines that do add more).
WebVTTLiteralBytes == 86
TranscriptLiteralBytes == 510

\* actualDuration when neither probe yields a duration (30 s).
DefaultCaptionDuration == 30000000

\* Faulty variant of SkipsSegment: no segment is skipped.
SkipsSegment_Never(kind) == FALSE

\* The loops of generateWebVTT and generateSRT skip a segment whose text is
\* missing or empty after trimming (start and end are always present in a
\* synced segment).
SkipsSegment(kind) == kind # "text"

\* Faulty variant of KeptSegments: the surviving segments take the timing
\* of the first segments of the list.
KeptSegments_Retimed ==
    LET kept == SelectSeq(syncedSegments,
                          LAMBDA s : ~SkipsSegment(capTexts[s.index]))
    IN  [c \in 1..Len(kept) |->
            [syncedSegments[c] EXCEPT !.index = kept[c].index]]

\* The segments a rendering loop emits a cue for, in list order.
KeptSegments ==
    SelectSeq(syncedSegments, LAMBDA s : ~SkipsSegment(capTexts[s.index]))

\* The cleaned caption text of the segment at position index: trimmed, white
\* space collapsed, long lines broken; it stays the text of that segment.
CaptionText(index) == <<"text of segment", index>>

\* Bytes of the cleaned text of a kept segment ("Hello").
CaptionTextBytes(index) == 5

\* formatWebVTTTime / formatSRTTime: HH:MM:SS<sep>mmm. The milliseconds are
\* Math.floor((totalSeconds % 1) * 1000), which falls one short where the
\* product lies just below the whole number (low).
FormatTime(us, low, sep) ==
    LET totalSeconds == us \div 1000000
        ms == (us % 1000000) \div 1000
    IN  [hours |-> totalSeconds \div 3600,
         minutes |-> (totalSeconds % 3600) \div 60,
         secs |-> totalSeconds % 60,
         milliseconds |-> IF low /\ ms > 0 THEN ms - 1 ELSE ms,
         separator |-> sep]

FormatWebVTTTime(us, low) == FormatTime(us, low, ".")

\* Faulty variant of FormatSRTTime: the milliseconds are rounded, not floored.
FormatSRTTime_Rounded(us, low) == FormatTime(us, FALSE, ",")

FormatSRTTime(us, low) == FormatTime(us, low, ",")

\* Bytes of one cue: identifier line, timing line, text, blank line.
CueBytes(s) ==
    (IF s.index < 10 THEN 1 ELSE 2) + 1 + (12 + 5 + 12 + 1)
    + CaptionTextBytes(s.index) + 2

\* Bytes of the cues of a list of kept segments.
RECURSIVE CuesBytes(_)
CuesBytes(kept) ==
    IF kept = <<>> THEN 0 ELSE CueBytes(Head(kept)) + CuesBytes(Tail(kept))

\* generateWebVTT(segments, translation, jobId): the header carries the
\* moment of generation and the end of the last segment.
GenerateWebVTT ==
    [generated |-> capNow,
     totalDuration |-> syncedSegments[Len(syncedSegments)].end,
     cues |-> [c \in 1..Len(KeptSegments) |->
                 LET s == KeptSegments[c] IN
                 [id |-> s.index,
                  start |-> FormatWebVTTTime(s.start, (s.index - 1) \in fpLossy),
                  end |-> FormatWebVTTTime(s.end, s.index \in fpLossy),
                  text |-> CaptionText(s.index)]],
     bytes |-> WebVTTLiteralBytes + CuesBytes(KeptSegments)]

\* generateSRT(segments, translation, jobId): cues only, no header.
GenerateSRT ==
    [cues |-> [c \in 1..Len(KeptSegments) |->
                 LET s == KeptSegments[c] IN
                 [id |-> s.index,
                  start |-> FormatSRTTime(s.start, (s.index - 1) \in fpLossy),
                  end |-> FormatSRTTime(s.end, s.index \in fpLossy),
                  text |-> CaptionText(s.index)]],
     bytes |-> CuesBytes(KeptSegments)]

\* generatePlainTextTranscript(segments, translation, jobId)
GeneratePlainTextTranscript ==
    [generated |-> capNow,
     totalSegments |-> Len(syncedSegments),
     entries |-> [c \in 1..Len(KeptSegments) |->
                    CaptionText(KeptSegments[c].index)],
     bytes |-> TranscriptLiteralBytes]

\* generateCaptions after the timing: the three files are written, the
\* WebVTT and the transcript sizes are checked, the paths are returned.
WriteCaptionFiles ==
    /\ capResult = "pending"
    /\ syncedSegments # <<>>
    /\ capFiles' = [written |-> TRUE,
                    webvtt |-> GenerateWebVTT,
                    srt |-> GenerateSRT,
                    transcript |-> GeneratePlainTextTranscript]
    /\ capResult' = IF GenerateWebVTT.bytes < CaptionSizeFloor THEN "threw"
                    ELSE IF GeneratePlainTextTranscript.bytes < TranscriptSizeFloor
                    THEN "threw"
                    ELSE "returned"
    /\ capRuns' = capRuns + 1
    /\ UNCHANGED <<orchVars, asmVars, trVars, utilVars, resumePc, capSegments, capDuration, syncedSegments,
                   capJob, capTexts, capNow, fpTieUp, fpLossy, capPrev>>

\* generateCaptions is called once more with the same translation while the
\* dubbed track is unchanged, at a later moment.
GenerateCaptionsAgain ==
    /\ capResult # "pending"
    /\ capRuns < MaxCaptionRuns
    /\ capPrev' = capFiles
    /\ capNow' = capNow + 1
    /\ syncedSegments' = <<>>
    /\ capResult' = "pending"
    /\ UNCHANGED <<orchVars, asmVars, trVars, utilVars, resumePc, capSegments, capDuration, capJob,
                   capTexts, fpTieUp, fpLossy, capFiles, capRuns>>

\* findOriginalVideoFile: the most recently modified video of
\* uploads/originals (0: the directory holds none).
FindOriginalVideoFile == Len(originals)

\* getFileDuration: the probed duration (here of a file of ms milliseconds,
\* in microseconds); 0 when the probe fails or reports no positive number.
GetFileDuration(ms, ok) == IF ok /\ ms > 0 THEN ms * 1000 ELSE 0

\* generateCaptions, duration lookup:
\* actualDuration = audioDuration || videoDuration || 30.
ResolveCaptionDuration(j) ==
    /\ capJob = "none"
    /\ \E videoOk \in ToolOutcomes, audioOk \in ToolOutcomes :
         LET videoDuration ==
                 IF FindOriginalVideoFile = 0 THEN 0
                 ELSE GetFileDuration(originals[FindOriginalVideoFile].dur,
                                      videoOk)
             audioDuration ==
                 IF outFile[j] >= 0 THEN GetFileDuration(outFile[j], audioOk)
                 ELSE 0
         IN  capDuration' = IF audioDuration # 0 THEN audioDuration
                            ELSE IF videoDuration # 0 THEN videoDuration
                            ELSE DefaultCaptionDuration
    /\ capJob' = j
    /\ UNCHANGED <<orchVars, asmVars, trVars, utilVars, resumePc, capSegments, syncedSegments, capTexts,
                   capNow, fpTieUp, fpLossy, capFiles, capPrev, capRuns,
                   capResult>>

\* generateCaptions has validated a non-empty segment list and settled on a
\* duration; no job is being dubbed.
InitCap ==
    /\ OrchIdle
    /\ TrIdle
    /\ UtilIdle
    /\ AsmIdle
    /\ originals = <<>>
    /\ videoDur = [j \in Jobs |-> 6400]
    /\ segs = [j \in Jobs |-> <<"text">>]
    /\ synthRange = SynthDurations
    /\ toolFaults = FALSE
    /\ apc = [j \in Jobs |-> "absent"]
    /\ capSegments \in 1..MaxCues
    /\ capDuration \in CaptionDurations
    /\ syncedSegments = <<>>
    /\ capJob = "jobA"
    /\ capTexts \in [1..capSegments -> CaptionTextKinds]
    /\ capNow = 1
    /\ fpTieUp \in BOOLEAN
    /\ fpLossy \in SUBSET (0..capSegments)
    /\ capFiles = NoCaptionFiles
    /\ capPrev = NoCaptionFiles
    /\ capRuns = 0
    /\ capResult = "pending"

NextCap ==
    \/ RegenerateSegmentTiming
    \/ WriteCaptionFiles
    \/ GenerateCaptionsAgain

SpecCap == InitCap /\ [][NextCap]_vars

\* Durations (ms) of the dubbed track the TTS stage left for a job.
TrackDurations == {3000, 6000, 7500, 15000}

\* The caption stage of either job is about to look up its duration: both
\* videos are uploaded (in either order), the dubbed tracks are written,
\* and a probe may fail.
InitCapDur ==
    /\ OrchIdle
    /\ TrIdle
    /\ UtilIdle
    /\ CapIdle
    /\ videoDur = [j \in Jobs |-> IF j = "jobA" THEN 6400 ELSE 59600]
    /\ originals \in
         {<<[name |-> UploadName(a), dur |-> videoDur[a]],
            [name |-> UploadName(b), dur |-> videoDur[b]]>> :
              <<a, b>> \in {<<"jobA", "jobB">>, <<"jobB", "jobA">>}}
    /\ segs = [j \in Jobs |-> <<"text">>]
    /\ synthRange = SynthDurations
    /\ toolFaults = TRUE
    /\ apc = [j \in Jobs |-> "returned"]
    /\ actualDuration = [j \in Jobs |-> 0]
    /\ segIndex = [j \in Jobs |-> 0]
    /\ segmentAudioFiles = [j \in Jobs |-> <<>>]
    /\ tempDir = NoDir
    /\ outFile \in [Jobs -> TrackDurations]
    /\ generatedDuration = [j \in Jobs |-> 0]
    /\ segmentError = [j \in Jobs |-> "none"]
    /\ segFailures = [j \in Jobs |-> {}]
    /\ concatInput = [j \in Jobs |-> <<>>]
    /\ asmErr = [j \in Jobs |-> "none"]
    /\ ttsResult = [j \in Jobs |-> Pending]
    /\ outputTemp = [j \in Jobs |-> FALSE]

NextCapDur == \E j \in Jobs : ResolveCaptionDuration(j)

SpecCapDur == InitCapDur /\ [][NextCapDur]_vars

----------------------------------------------------------------------------
(* Translation service: translateText and its helpers (services/           *)
(* translationService.js, kept in transcriptionService.js 1284 to 2180).   *)
(* The wall clock counts hours.                                            *)

\* Largest number of segments of a transcription.
MaxTrSegments == 2

\* "daily limit reached (25)".
DailyLimit == 25

\* 6 * 60 * 60 * 1000 ms.
BlockHours == 6

\* Math.min(15, transcription.segments.length).
GoogleSegmentCap == 15

\* What a caller may hand to translateText, in the order of its checks.
TrCases ==
    {"valid", "invalid_transcription", "no_record", "no_target",
     "empty_text", "unsupported_target", "same_language"}

\* The errors translateText throws for its input.
InputErrors ==
    {"invalid_transcription", "no_record", "no_target", "empty_text",
     "unsupported_target"}

\* transcription.segments: every segment with its own start and end; the
\* text is Hindi ("text") or empty.
TranscriptionSegments(kinds) ==
    [i \in 1..Len(kinds) |->
        [start |-> i * i, end |-> i * i + i, text |-> kinds[i]]]

\* The job record when processVideo calls translateText.
TranslationRecord ==
    [NoRecord EXCEPT !.status = "processing", !.step = "translation",
                     !.stamps = {"processing_started_at",
                                 "transcription_completed_at"},
                     !.artifacts = {"audioOutputPath", "transcript_file_path"}]

\* The write of a translation that every returning path performs.
SaveTranslation(j) ==
    db' = [db EXCEPT ![j].artifacts = @ \cup {"translated_text"},
                     ![j].stamps = @ \cup {"translation_completed_at"}]

\* The variables of the orchestrator run that translateText leaves alone.
runVars == <<pc, cur, started, returned, err, stageThrew, thrown,
             failWriteLost, ttsPc, asmFailed>>

\* translateText up to the first service: input checks and the read of the
\* job record. The caller's transcription is trCase and trIn.
TranslateText(j) ==
    /\ UNCHANGED <<runVars, asmVars, capVars, utilVars, resumePc>>
    /\ tpc[j] = "absent"
    /\ \E readOk \in BOOLEAN :
        LET c == trCase[j]
            failure ==
                 IF c = "invalid_transcription" THEN c
                 ELSE IF ~readOk THEN "store"
                 ELSE IF c \in InputErrors THEN c
                 ELSE "none"
        IN  /\ trErr' = [trErr EXCEPT ![j] = failure]
            /\ tpc' = [tpc EXCEPT ![j] =
                          IF failure # "none" THEN "catch"
                          ELSE IF c = "same_language" THEN "skipped"
                          ELSE "libre"]
    /\ UNCHANGED <<db, now, dailyGoogleTranslations, lastResetDate,
                   googleBlocked, blockUntil, requestAtLimit, trCase, trIn,
                   trOut, trIdx, trService>>

\* The entry translateWithLibreTranslateEnhanced pushes for segment s.
LibreSegment(s, ok) ==
    [start |-> s.start, end |-> s.end,
     text |-> IF s.text = "" THEN ""
              ELSE IF ok THEN "translated" ELSE s.text]

\* translateWithLibreTranslateEnhanced returning: an instance translated the
\* full text, every segment was pushed, the translation was saved.
TranslateWithLibreTranslateEnhanced(j) ==
    /\ UNCHANGED <<runVars, asmVars, capVars, utilVars, resumePc>>
    /\ tpc[j] = "libre"
    /\ \E ok \in [1..Len(trIn[j]) -> BOOLEAN] :
        trOut' = [trOut EXCEPT ![j] =
                     [i \in 1..Len(trIn[j]) |-> LibreSegment(trIn[j][i], ok[i])]]
    /\ SaveTranslation(j)
    /\ trService' = [trService EXCEPT ![j] = "libretranslate-enhanced-hindi"]
    /\ tpc' = [tpc EXCEPT ![j] = "returned"]
    /\ UNCHANGED <<now, dailyGoogleTranslations, lastResetDate, googleBlocked,
                   blockUntil, requestAtLimit, trCase, trIn, trIdx, trErr>>

\* A fault of the primary service rethrown by translateText.
LibreTranslateFails_Rethrows(j) ==
    /\ UNCHANGED <<runVars, asmVars, capVars, utilVars, resumePc>>
    /\ tpc[j] = "libre"
    /\ trErr' = [trErr EXCEPT ![j] = "libre"]
    /\ tpc' = [tpc EXCEPT ![j] = "catch"]
    /\ UNCHANGED <<db, now, dailyGoogleTranslations, lastResetDate,
                   googleBlocked, blockUntil, requestAtLimit, trCase, trIn,
                   trOut, trIdx, trService>>

\* translateWithLibreTranslateEnhanced throwing (no instance answered, or the
\* save failed): translateText logs it and turns to Google.
LibreTranslateFails(j) ==
    /\ UNCHANGED <<runVars, asmVars, capVars, utilVars, resumePc>>
    /\ tpc[j] = "libre"
    /\ tpc' = [tpc EXCEPT ![j] = "google"]
    /\ UNCHANGED <<db, now, dailyGoogleTranslations, lastResetDate,
                   googleBlocked, blockUntil, requestAtLimit, trCase, trIn,
                   trOut, trIdx, trErr, trService>>

\* googleBlocked && blockUntil && new Date() < blockUntil, never true.
IsBlocked_Never(blocked, until) == FALSE

\* googleBlocked && blockUntil && new Date() < blockUntil.
IsBlocked(blocked, until) == blocked /\ until # NoBlock /\ now < until

\* The entry the Google loop pushes for segment s: its start and end with
\* the text "" (empty segment), s.text (failed or rate-protected) or the
\* translation.
GoogleSegment(s, text) == [start |-> s.start, end |-> s.end, text |-> text]

\* The segment loop of translateWithGoogleEnhanced from index i up to its
\* next await: empty and rate-protected segments are pushed at once, a
\* segment that is to be translated stops the run with a request pending.
RECURSIVE GoogleLoop(_, _, _, _)
GoogleLoop(segments, i, out, count) ==
    IF i > Len(segments) THEN [idx |-> i, out |-> out, pending |-> FALSE]
    ELSE IF segments[i].text = ""
         THEN GoogleLoop(segments, i + 1,
                         Append(out, GoogleSegment(segments[i], "")), count)
    ELSE IF i <= GoogleSegmentCap /\ count < DailyLimit
         THEN [idx |-> i, out |-> out, pending |-> TRUE]
    ELSE GoogleLoop(segments, i + 1,
                    Append(out, GoogleSegment(segments[i], segments[i].text)), count)

\* The job goes on from index i with the segments pushed so far.
GoogleContinue(j, i, out, count) ==
    LET run == GoogleLoop(trIn[j], i, out, count)
    IN  /\ trOut' = [trOut EXCEPT ![j] = run.out]
        /\ trIdx' = [trIdx EXCEPT ![j] = run.idx]
        /\ tpc' = [tpc EXCEPT ![j] = IF run.pending THEN "segment" ELSE "save"]

\* Entry of translateWithGoogleEnhanced: daily reset, block check, limit
\* check, then the request for the full text is issued.
TranslateWithGoogleEnhanced(j) ==
    /\ UNCHANGED <<runVars, asmVars, capVars, utilVars, resumePc>>
    /\ tpc[j] = "google"
    /\ LET today == DateString(now)
           reset == today # lastResetDate
           count == IF reset THEN 0 ELSE dailyGoogleTranslations
           blocked == IF reset THEN FALSE ELSE googleBlocked
           until == IF reset THEN NoBlock ELSE blockUntil
       IN  /\ lastResetDate' = today
           /\ dailyGoogleTranslations' = count
           /\ googleBlocked' = blocked
           /\ blockUntil' = until
           /\ IF IsBlocked(blocked, until)
              THEN /\ trErr' = [trErr EXCEPT ![j] = "google_blocked"]
                   /\ tpc' = [tpc EXCEPT ![j] = "fallback"]
                   /\ UNCHANGED requestAtLimit
              ELSE IF count > DailyLimit
              THEN /\ trErr' = [trErr EXCEPT ![j] = "google_limit"]
                   /\ tpc' = [tpc EXCEPT ![j] = "fallback"]
                   /\ UNCHANGED requestAtLimit
              ELSE /\ requestAtLimit' = (requestAtLimit \/ count >= DailyLimit)
                   /\ tpc' = [tpc EXCEPT ![j] = "full"]
                   /\ UNCHANGED trErr
    /\ UNCHANGED <<db, now, trCase, trIn, trOut, trIdx, trService>>

\* The answer to the full-text request.
GoogleFullTextAnswers(j) ==
    /\ UNCHANGED <<runVars, asmVars, capVars, utilVars, resumePc>>
    /\ tpc[j] = "full"
    /\ \E answer \in {"ok", "rate_limited", "error"} :
        IF answer = "ok"
        THEN /\ dailyGoogleTranslations' = dailyGoogleTranslations + 1
             /\ GoogleContinue(j, 1, <<>>, dailyGoogleTranslations + 1)
             /\ UNCHANGED <<googleBlocked, blockUntil, trErr>>
        ELSE /\ googleBlocked' = (googleBlocked \/ answer = "rate_limited")
             /\ blockUntil' = IF answer = "rate_limited"
                              THEN now + BlockHours ELSE blockUntil
             /\ trErr' = [trErr EXCEPT ![j] = "google_" \o answer]
             /\ tpc' = [tpc EXCEPT ![j] = "fallback"]
             /\ UNCHANGED <<dailyGoogleTranslations, trOut, trIdx>>
    /\ UNCHANGED <<db, now, lastResetDate, requestAtLimit, trCase, trIn,
                   trService>>

\* The answer to the request for segment trIdx.
GoogleSegmentAnswers(j) ==
    /\ UNCHANGED <<runVars, asmVars, capVars, utilVars, resumePc>>
    /\ tpc[j] = "segment"
    /\ LET s == trIn[j][trIdx[j]]
       IN  \E answer \in {"ok", "rate_limited", "error"} :
            CASE answer = "ok" ->
                    /\ trOut' = [trOut EXCEPT
                                    ![j] = Append(@, GoogleSegment(s, "translated"))]
                    /\ dailyGoogleTranslations' = dailyGoogleTranslations + 1
                    /\ tpc' = [tpc EXCEPT ![j] = "delay"]
                    /\ UNCHANGED <<googleBlocked, blockUntil, trIdx, trErr>>
              [] answer = "rate_limited" ->
                    /\ googleBlocked' = TRUE
                    /\ blockUntil' = now + BlockHours
                    /\ trErr' = [trErr EXCEPT ![j] = "segment_rate_limited"]
                    /\ tpc' = [tpc EXCEPT ![j] = "save"]
                    /\ UNCHANGED <<dailyGoogleTranslations, trOut, trIdx>>
              [] OTHER ->
                    /\ GoogleContinue(j, trIdx[j] + 1,
                                      Append(trOut[j], GoogleSegment(s, s.text)),
                                      dailyGoogleTranslations)
                    /\ trErr' = [trErr EXCEPT ![j] = "segment_error"]
                    /\ UNCHANGED <<dailyGoogleTranslations, googleBlocked,
                                   blockUntil>>
    /\ UNCHANGED <<db, now, lastResetDate, requestAtLimit, trCase, trIn,
                   trService>>

\* The 800 ms pause after a translated segment has passed.
GoogleDelayEnds(j) ==
    /\ UNCHANGED <<runVars, asmVars, capVars, utilVars, resumePc>>
    /\ tpc[j] = "delay"
    /\ GoogleContinue(j, trIdx[j] + 1, trOut[j], dailyGoogleTranslations)
    /\ UNCHANGED <<db, now, dailyGoogleTranslations, lastResetDate,
                   googleBlocked, blockUntil, requestAtLimit, trCase, trIn,
                   trErr, trService>>

\* The save of the Google translation; a failed save is rethrown by the
\* catch block and makes translateText fall back.
GoogleSaves(j) ==
    /\ UNCHANGED <<runVars, asmVars, capVars, utilVars, resumePc>>
    /\ tpc[j] = "save"
    /\ \E saved \in BOOLEAN :
        IF saved
        THEN /\ SaveTranslation(j)
             /\ trService' = [trService EXCEPT
                                 ![j] = "google-translate-enhanced-fallback"]
             /\ tpc' = [tpc EXCEPT ![j] = "returned"]
             /\ UNCHANGED <<trOut, trErr>>
        ELSE /\ trErr' = [trErr EXCEPT ![j] = "google_store"]
             /\ trOut' = [trOut EXCEPT ![j] = <<>>]
             /\ tpc' = [tpc EXCEPT ![j] = "fallback"]
             /\ UNCHANGED <<db, trService>>
    /\ UNCHANGED <<now, dailyGoogleTranslations, lastResetDate, googleBlocked,
                   blockUntil, requestAtLimit, trCase, trIn, trIdx>>

\* The helper whose promise translateText returns without awaiting it:
\* the original text and segments are the translation; a failed save rejects
\* translateText past its catch block.
ReturnOriginal(j, service) ==
    /\ \E saved \in BOOLEAN :
        IF saved
        THEN /\ SaveTranslation(j)
             /\ trOut' = [trOut EXCEPT ![j] = trIn[j]]
             /\ trService' = [trService EXCEPT ![j] = service]
             /\ tpc' = [tpc EXCEPT ![j] = "returned"]
             /\ UNCHANGED trErr
        ELSE /\ trErr' = [trErr EXCEPT ![j] = "store"]
             /\ tpc' = [tpc EXCEPT ![j] = "threw"]
             /\ UNCHANGED <<db, trOut, trService>>
    /\ UNCHANGED <<now, dailyGoogleTranslations, lastResetDate, googleBlocked,
                   blockUntil, requestAtLimit, trCase, trIn, trIdx>>

CreateEnhancedFallback(j) ==
    /\ UNCHANGED <<runVars, asmVars, capVars, utilVars, resumePc>>
    /\ tpc[j] = "fallback"
    /\ ReturnOriginal(j, "enhanced-fallback-original-text")

CreateSkippedTranslation(j) ==
    /\ UNCHANGED <<runVars, asmVars, capVars, utilVars, resumePc>>
    /\ tpc[j] = "skipped"
    /\ ReturnOriginal(j, "enhanced-translation-skipped")

\* The catch block of translateText: the error is saved (a failed save is
\* only logged) and rethrown.
TranslateTextCatch(j) ==
    /\ UNCHANGED <<runVars, asmVars, capVars, utilVars, resumePc>>
    /\ tpc[j] = "catch"
    /\ \E saved \in BOOLEAN :
        IF saved
        THEN db' = [db EXCEPT ![j].errorMessages = Append(@, StageNote(3)),
                              ![j].errorFields = @ \cup StageErrorFields(3)]
        ELSE UNCHANGED db
    /\ tpc' = [tpc EXCEPT ![j] = "threw"]
    /\ UNCHANGED <<now, dailyGoogleTranslations, lastResetDate, googleBlocked,
                   blockUntil, requestAtLimit, trCase, trIn, trOut, trIdx,
                   trErr, trService>>

\* Time passes.
ClockAdvances ==
    /\ UNCHANGED <<orchVars, asmVars, capVars, utilVars, resumePc>>
    /\ \E h \in ClockHours : h > now /\ now' = h
    /\ UNCHANGED <<dailyGoogleTranslations, lastResetDate, googleBlocked,
                   blockUntil, requestAtLimit, tpc, trCase, trIn, trOut, trIdx,
                   trErr, trService>>

\* The earlier jobs of the day have left the count at 0 or at 23.
InitTrans ==
    /\ now = 15
    /\ dailyGoogleTranslations \in {0, 23}
    /\ lastResetDate = DateString(15)
    /\ googleBlocked = FALSE
    /\ blockUntil = NoBlock
    /\ requestAtLimit = FALSE
    /\ tpc = [j \in Jobs |-> "absent"]
    /\ trCase \in [Jobs -> TrCases]
    /\ trCase["jobB"] = "valid"
    /\ \E kinds \in [Jobs -> UNION {[1..n -> {"text", ""}] : n \in 0..MaxTrSegments}] :
        /\ kinds["jobB"] = <<"text">>
        /\ trIn = [j \in Jobs |-> TranscriptionSegments(kinds[j])]
    /\ trOut = [j \in Jobs |-> <<>>]
    /\ trIdx = [j \in Jobs |-> 0]
    /\ trErr = [j \in Jobs |-> "none"]
    /\ trService = [j \in Jobs |-> "none"]
    /\ UtilIdle
    /\ AsmIdle
    /\ CapIdle
    /\ db = [j \in Jobs |-> TranslationRecord]
    /\ pc = [j \in Jobs |-> "stage"]
    /\ cur = [j \in Jobs |-> 3]
    /\ started = [j \in Jobs |-> <<1, 2, 3>>]
    /\ returned = [j \in Jobs |-> {1, 2}]
    /\ err = [j \in Jobs |-> NoError]
    /\ stageThrew = [j \in Jobs |-> NoError]
    /\ thrown = [j \in Jobs |-> NoError]
    /\ failWriteLost = [j \in Jobs |-> FALSE]
    /\ ttsPc = [j \in Jobs |-> "none"]
    /\ asmFailed = [j \in Jobs |-> FALSE]
    /\ resumePc = "idle"
    /\ originals = <<>>
    /\ videoDur = [j \in Jobs |-> 6400]
    /\ segs = [j \in Jobs |-> <<"text">>]
    /\ synthRange = SynthDurations
    /\ toolFaults = FALSE
    /\ apc = [j \in Jobs |-> "absent"]

NextTrans ==
    \/ ClockAdvances
    \/ \E j \in Jobs :
        \/ TranslateText(j)
        \/ TranslateWithLibreTranslateEnhanced(j)
        \/ LibreTranslateFails(j)
        \/ TranslateWithGoogleEnhanced(j)
        \/ GoogleFullTextAnswers(j)
        \/ GoogleSegmentAnswers(j)
        \/ GoogleDelayEnds(j)
        \/ GoogleSaves(j)
        \/ CreateEnhancedFallback(j)
        \/ CreateSkippedTranslation(j)
        \/ TranslateTextCatch(j)

SpecTrans == InitTrans /\ [][NextTrans]_vars

----------------------------------------------------------------------------
(* Caption helpers: breakLongLines as generateWebVTT calls it, and         *)
(* validateSegments (services/captionService.js). A text is a sequence of  *)
(* characters.                                                             *)

\* Largest number of words of a caption text.
MaxWords == 3

\* breakLongLines(captionText, 40).
MaxLineLength == 40

\* lines.join(sep), words.join(sep).
RECURSIVE Join(_, _)
Join(parts, sep) ==
    IF parts = <<>> THEN <<>>
    ELSE IF Len(parts) = 1 THEN parts[1]
    ELSE parts[1] \o <<sep>> \o Join(Tail(parts), sep)

\* text.split(sep): the runs of characters between the separators.
Split(text, sep) ==
    LET at == {k \in 1..Len(text) : text[k] = sep}
        Nth(i) == IF i = 0 THEN 0
                  ELSE IF i > Cardinality(at) THEN Len(text) + 1
                  ELSE CHOOSE p \in at : Cardinality({q \in at : q < p}) = i - 1
    IN  [i \in 1..(Cardinality(at) + 1) |->
            SubSeq(text, Nth(i - 1) + 1, Nth(i) - 1)]

\* The single-spaced text whose k-th word has lens[k] letters, all of them
\* the k-th letter of the alphabet.
TextOfWords(lens) ==
    Join([k \in 1..Len(lens) |->
             [c \in 1..lens[k] |-> <<"a", "b", "c", "d", "e">>[k]]], " ")

\* The test of the loop with the separator left out of the count.
Fits_NoSeparator(currentLine, word, maxLength) ==
    Len(currentLine) + Len(word) <= maxLength

\* (currentLine + ' ' + word).length <= maxLength
Fits(currentLine, word, maxLength) ==
    Len(currentLine) + 1 + Len(word) <= maxLength

\* The loop over the words, from word k on.
RECURSIVE BreakWords(_, _, _, _, _)
BreakWords(words, k, lines, currentLine, maxLength) ==
    IF k > Len(words)
    THEN IF currentLine # <<>> THEN Append(lines, currentLine) ELSE lines
    ELSE IF Fits(currentLine, words[k], maxLength)
         THEN BreakWords(words, k + 1, lines,
                         IF currentLine # <<>>
                         THEN currentLine \o <<" ">> \o words[k]
                         ELSE words[k],
                         maxLength)
    ELSE BreakWords(words, k + 1,
                    IF currentLine # <<>> THEN Append(lines, currentLine)
                    ELSE lines,
                    words[k], maxLength)

BreakLongLines(text, maxLength) ==
    IF Len(text) <= maxLength THEN text
    ELSE Join(BreakWords(Split(text, " "), 1, <<>>, <<>>, maxLength), "\n")

\* The cue generateWebVTT builds for one segment.
BuildCue ==
    /\ UNCHANGED <<orchVars, asmVars, capVars, trVars, resumePc>>
    /\ ~wrapCue.built
    /\ wrapCue' = [built |-> TRUE,
                   start |-> FormatWebVTTTime(wrapSegment.start, FALSE),
                   end |-> FormatWebVTTTime(wrapSegment.end, FALSE),
                   text |-> BreakLongLines(wrapSegment.text, MaxLineLength)]
    /\ UNCHANGED <<wrapSegment, valSegments, valResult>>

\* Texts of up to MaxWords words of 1 to 41 letters, in a segment at the
\* start of the video or after its first minute (microseconds).
InitWrap ==
    /\ OrchIdle
    /\ TrIdle
    /\ AsmIdle
    /\ CapIdle
    /\ originals = <<>>
    /\ videoDur = [j \in Jobs |-> 6400]
    /\ segs = [j \in Jobs |-> <<"text">>]
    /\ synthRange = SynthDurations
    /\ toolFaults = FALSE
    /\ apc = [j \in Jobs |-> "absent"]
    /\ \E lens \in UNION {[1..n -> {1, 19, 20, 21, 40, 41}] : n \in 1..MaxWords},
          t \in {<<0, 1500000>>, <<61004000, 63500000>>} :
        wrapSegment = [start |-> t[1], end |-> t[2], text |-> TextOfWords(lens)]
    /\ wrapCue = [built |-> FALSE]
    /\ valSegments = [isArray |-> TRUE, items |-> <<>>]
    /\ valResult = [called |-> FALSE]

SpecWrap == InitWrap /\ [][BuildCue]_vars

\* Largest number of segments handed to validateSegments.
MaxValSegments == 3

\* What a segment may look like.
SegmentShapes ==
    {"valid", "start_missing", "end_missing", "text_empty", "text_missing",
     "start_after_end"}

\* The segment of shape kind at position i of a list.
ShapedSegment(kind, i) ==
    [startIsNumber |-> kind # "start_missing",
     endIsNumber |-> kind # "end_missing",
     start |-> IF kind = "start_after_end" THEN 2 * i + 1 ELSE 2 * i,
     end |-> IF kind = "start_after_end" THEN 2 * i ELSE 2 * i + 1,
     text |-> CASE kind = "text_empty" -> "empty"
                [] kind = "text_missing" -> "missing"
                [] OTHER -> "string"]

\* The messages the four tests of validateSegments push for segment s at
\* position index. (A comparison with a missing time is false.)
SegmentErrors(s, index) ==
    (IF ~s.startIsNumber THEN <<<<index, "Invalid start time">>>> ELSE <<>>)
    \o (IF ~s.endIsNumber THEN <<<<index, "Invalid end time">>>> ELSE <<>>)
    \o (IF s.text # "string"
        THEN <<<<index, "Invalid or missing text">>>> ELSE <<>>)
    \o (IF s.startIsNumber /\ s.endIsNumber /\ s.start >= s.end
        THEN <<<<index, "Start time must be before end time">>>> ELSE <<>>)

\* segments.forEach(...) from position k on: errors is the one list of the
\* whole call.
RECURSIVE ValidateFrom(_, _, _, _)
ValidateFrom(segments, k, errors, validSegments) ==
    IF k > Len(segments)
    THEN [errors |-> errors, validSegments |-> validSegments]
    ELSE LET found == errors \o SegmentErrors(segments[k], k)
         IN  ValidateFrom(segments, k + 1, found,
                          IF Len(found) = 0
                          THEN Append(validSegments, segments[k])
                          ELSE validSegments)

ValidateSegments(segments) ==
    IF ~segments.isArray
    THEN [called |-> TRUE, isValid |-> FALSE,
          errors |-> <<<<0, "Segments is not an array">>>>]
    ELSE LET run == ValidateFrom(segments.items, 1, <<>>, <<>>)
         IN  [called |-> TRUE,
              isValid |-> Len(run.errors) = 0,
              errors |-> run.errors,
              validSegments |-> run.validSegments,
              originalCount |-> Len(segments.items),
              validCount |-> Len(run.validSegments)]

CallValidateSegments ==
    /\ UNCHANGED <<orchVars, asmVars, capVars, trVars, resumePc>>
    /\ ~valResult.called
    /\ valResult' = ValidateSegments(valSegments)
    /\ UNCHANGED <<wrapSegment, wrapCue, valSegments>>

InitValidate ==
    /\ OrchIdle
    /\ TrIdle
    /\ AsmIdle
    /\ CapIdle
    /\ originals = <<>>
    /\ videoDur = [j \in Jobs |-> 6400]
    /\ segs = [j \in Jobs |-> <<"text">>]
    /\ synthRange = SynthDurations
    /\ toolFaults = FALSE
    /\ apc = [j \in Jobs |-> "absent"]
    /\ wrapSegment = [start |-> 0, end |-> 0, text |-> <<>>]
    /\ wrapCue = [built |-> FALSE]
    /\ \/ valSegments = [isArray |-> FALSE, items |-> <<>>]
       \/ \E kinds \in UNION {[1..n -> SegmentShapes] : n \in 0..MaxValSegments} :
            valSegments =
                [isArray |-> TRUE,
                 items |-> [i \in 1..Len(kinds) |-> ShapedSegment(kinds[i], i)]]
    /\ valResult = [called |-> FALSE]

SpecValidate == InitValidate /\ [][CallValidateSegments]_vars

----------------------------------------------------------------------------
(* Properties of the orchestrator (specification Spec)                     *)

\* Position of a step value on the chain audio_extraction .. completed
\* (0: not written yet); a value off the chain has no position.
StepChain == {StepName(k) : k \in 1..(NumStages + 1)}
StepRank(s) ==
    IF s = "unset" THEN 0
    ELSE CHOOSE k \in 1..(NumStages + 1) : StepName(k) = s

\* Stages are started in the fixed order 1, 2, .., each at most once, each
\* only after its predecessor returned, and status completed needs all six.
StagesInOrder ==
    \A j \in Jobs :
        /\ started[j] = [i \in 1..Len(started[j]) |-> i]
        /\ Len(started[j]) <= NumStages
        /\ \A i \in 2..Len(started[j]) : (i - 1) \in returned[j]
        /\ db[j].status = "completed" => returned[j] = 1..NumStages

\* The persisted step stays on the chain and never moves backwards.
StepMovesForward ==
    \A j \in Jobs :
        /\ db'[j].step \in StepChain \cup {"unset"}
        /\ db[j].step \in StepChain \cup {"unset"}
             => StepRank(db'[j].step) >= StepRank(db[j].step)

\* C1: in every run the six stages are started in the fixed order, each at
\* most once and only after the previous one returned, processing_step only
\* ever moves forward along audio_extraction .. completed, and the status
\* becomes completed only after all six stages succeeded.
C1_FixedOrderForwardSteps ==
    [][StagesInOrder' /\ StepMovesForward]_vars

\* C2: when a stage throws (and the failure write is applied), the record
\* ends with status failed and a step that still names the failing stage.
C2_StepFrozenAtFailingStage ==
    \A j \in Jobs :
        (pc[j] = "rejected" /\ stageThrew[j] # NoError /\ ~failWriteLost[j])
            => /\ db[j].status = "failed"
               /\ db[j].step = StepName(stageThrew[j].at)

\* C3: once a stage threw, processVideo can only end by rejecting, and it
\* rejects with that same error, also when persisting the failure failed.
C3_RethrowsStageError ==
    \A j \in Jobs :
        stageThrew[j] # NoError
            => /\ pc[j] \in {"catch", "rejected"}
               /\ pc[j] = "rejected" => thrown[j] = stageThrew[j]

C3_Witness ==
    \E j \in Jobs :
        /\ pc[j] = "rejected"
        /\ failWriteLost[j]
        /\ stageThrew[j] = StageError(3)
        /\ thrown[j] = StageError(3)

\* C4: while stage S executes, the persisted processing_step names S.
C4_StepMarkerAccurate ==
    \A j \in Jobs :
        pc[j] = "stage"
            => /\ db[j].status = "processing"
               /\ db[j].step = StepName(cur[j])

C4_Witness ==
    \E j \in Jobs :
        /\ pc[j] = "stage"
        /\ cur[j] = 5
        /\ db[j].step = "caption_generation"

\* C5: once the dub assembly as a whole failed, the TTS stage does not
\* succeed and the pipeline never advances to caption_generation.
C5_AssemblyFailurePropagates ==
    \A j \in Jobs :
        asmFailed[j]
            => /\ 4 \notin returned[j]
               /\ db[j].step \notin {StepName(5), StepName(6), StepName(7)}

----------------------------------------------------------------------------
(* Properties of the timeline assembler (SpecAsm, SpecConc)                *)

\* Positions of generateSegmentBasedTTS at which its clips must still exist.
BeforeCleanup == {"synth", "measure", "adjust", "silence", "fallback",
                  "concat", "concat_run"}
AfterConcatCall == {"concat_run", "verify", "final_adjust", "cleanup",
                    "returned"}
SegmentLocalReasons == {"synthesis", "measurement", "adjustment"}

\* C6: the track the assembler returns is within 1.5 s of the target,
\* whatever the synthesizer produced and whichever segments failed.
C6_ConvergenceBound ==
    \A j \in Jobs :
        apc[j] = "returned"
            => Abs(outFile[j] - actualDuration[j]) <= FinalToleranceMs

\* C7: a synthesis, measurement or adjustment failure of segment i is caught
\* in the loop: it never becomes the error of the assembly, once iteration i
\* is over exactly one silence placeholder of the segment's target duration
\* carrying the reason stands at position i, and a run that returns has
\* processed every segment.
C7_SegmentLocalDegradation ==
    \A j \in Jobs :
        /\ asmErr[j] \notin SegmentLocalReasons
        /\ apc[j] \in AfterConcatCall => Len(segmentAudioFiles[j]) = Len(segs[j])
        /\ \A f \in segFailures[j] :
             IF f[1] < segIndex[j]
             THEN /\ Len(segmentAudioFiles[j]) > f[1]
                  /\ LET clip == segmentAudioFiles[j][f[1] + 1] IN
                       /\ clip.isSilence
                       /\ clip.file = SilenceFile(j, f[1])
                       /\ clip.duration = actualDuration[j] \div Len(segs[j])
                       /\ clip.fallbackReason = f[2]
                  /\ Cardinality({k \in 1..Len(segmentAudioFiles[j]) :
                        segmentAudioFiles[j][k].segmentIndex = f[1]}) = 1
             ELSE /\ f[1] = segIndex[j]
                  /\ apc[j] \in {"fallback", "catch", "threw"}
                  /\ apc[j] # "fallback" => asmErr[j] = "silence"

C7_Witness ==
    \E j \in Jobs :
        /\ apc[j] = "returned"
        /\ Len(segs[j]) = 2
        /\ <<0, "synthesis">> \in segFailures[j]
        /\ segmentAudioFiles[j][1].isSilence
        /\ segmentAudioFiles[j][1].fallbackReason = "synthesis"
        /\ ~segmentAudioFiles[j][2].isSilence

\* C8: while a job is between its first clip and the end of its
\* concatenation, every clip it produced so far and its file list are still
\* in the scratch directory, whatever the other job does.
C8_ScratchIsolation ==
    \A j \in Jobs :
        apc[j] \in BeforeCleanup
            => /\ \A k \in 1..Len(segmentAudioFiles[j]) :
                     HasFile(tempDir, segmentAudioFiles[j][k].file)
               /\ apc[j] = "concat_run" => HasFile(tempDir, FileList(j))

\* C9: the target handed to the assembler is the probed duration of the
\* job's own source video.
C9_OwnVideoDuration ==
    \A j \in Jobs :
        apc[j] \notin {"absent", "idle", "resolve", "fallback_track"}
            => actualDuration[j] = RoundToSecond(videoDur[j])

\* C10: during the loop the list holds exactly one clip per processed
\* segment, in segment order, and the list handed to concatenateAudioFiles
\* has one entry per segment, the i-th being the clip of the i-th segment.
C10_OrderedCompleteClipList ==
    \A j \in Jobs :
        /\ apc[j] \in BeforeCleanup \ {"concat_run"}
             => Len(segmentAudioFiles[j]) = segIndex[j]
        /\ \A k \in 1..Len(segmentAudioFiles[j]) :
             /\ segmentAudioFiles[j][k].segmentIndex = k - 1
             /\ segmentAudioFiles[j][k].file =
                  IF segmentAudioFiles[j][k].isSilence
                  THEN SilenceFile(j, k - 1) ELSE SegmentFile(j, k - 1)
        /\ apc[j] \in AfterConcatCall
             => /\ Len(concatInput[j]) = Len(segs[j])
                /\ \A k \in 1..Len(concatInput[j]) :
                     concatInput[j][k] \in {SegmentFile(j, k - 1),
                                            SilenceFile(j, k - 1)}

C10_Witness ==
    \E j \in Jobs :
        /\ apc[j] = "verify"
        /\ Len(concatInput[j]) = 2
        /\ concatInput[j] = <<SilenceFile(j, 0), SegmentFile(j, 1)>>

\* C11: the fitting of the segments is sequential and uniform: the clip list
\* and the loop index change only together, by the clip of the segment the
\* loop is at being appended while all earlier clips stay, and that clip's
\* target is the overall target divided by the number of segments (the
\* overall target itself for a single segment).
C11_UniformSequentialFitting ==
    [][\A j \in Jobs :
         (segIndex'[j] # segIndex[j]
             \/ segmentAudioFiles'[j] # segmentAudioFiles[j])
         => /\ segIndex[j] < Len(segs[j])
            /\ segIndex'[j] = segIndex[j] + 1
            /\ Len(segmentAudioFiles[j]) = segIndex[j]
            /\ Len(segmentAudioFiles'[j]) = segIndex[j] + 1
            /\ \A k \in 1..segIndex[j] :
                 segmentAudioFiles'[j][k] = segmentAudioFiles[j][k]
            /\ segmentAudioFiles'[j][segIndex[j] + 1].segmentIndex = segIndex[j]
            /\ segmentAudioFiles'[j][segIndex[j] + 1].duration =
                 actualDuration[j] \div Len(segs[j])
      ]_vars

C11_Witness ==
    \E j \in Jobs :
        /\ apc[j] = "returned"
        /\ actualDuration[j] = 60000
        /\ Len(segs[j]) = 2
        /\ Len(segmentAudioFiles[j]) = 2
        /\ \A k \in 1..2 : /\ ~segmentAudioFiles[j][k].isSilence
                            /\ segmentAudioFiles[j][k].duration = 30000

\* C12: after the re-probe of the assembled track the whole-track pass is
\* asked for exactly when the track is more than 1.5 s off the overall
\* target.
C12_FinalPassThreshold ==
    [][\A j \in Jobs :
         (apc[j] = "verify" /\ apc'[j] \in {"final_adjust", "cleanup"})
         => (apc'[j] = "final_adjust"
               <=> Abs(outFile[j] - actualDuration[j]) > 1500)
      ]_vars

\* A real clip of the list, still on disk, that was off its target by more
\* than the tolerance and needed a tempo factor outside [0.5, 2.0].
OutOfRangeClips(j) ==
    {k \in 1..Len(segmentAudioFiles[j]) :
        /\ apc[j] \in BeforeCleanup
        /\ ~segmentAudioFiles[j][k].isSilence
        /\ HasFile(tempDir, segmentAudioFiles[j][k].file)
        /\ Abs(segmentAudioFiles[j][k].originalDuration
                - segmentAudioFiles[j][k].duration) > SegmentToleranceMs
        /\ \/ segmentAudioFiles[j][k].originalDuration * 10
                > 20 * segmentAudioFiles[j][k].duration
           \/ segmentAudioFiles[j][k].originalDuration * 10
                < 5 * segmentAudioFiles[j][k].duration}

\* C13: a clip that needed a factor outside [0.5, 2.0] was scaled by the
\* clamped factor, and the duration recorded for it in the clip list is the
\* duration it really has, not its target.
C13_ClampDeviationRecorded ==
    \A j \in Jobs : \A k \in OutOfRangeClips(j) :
        LET clip == segmentAudioFiles[j][k] IN
        /\ tempDir.files[clip.file] =
             IF clip.originalDuration * 10 > 20 * clip.duration
             THEN clip.originalDuration \div 2
             ELSE clip.originalDuration * 2
        /\ clip.duration = tempDir.files[clip.file]

\* C14, as stated: a clip that needed a factor outside [0.5, 2.0] is left
\* exactly as the synthesizer produced it.
C14_UntouchedOutsideRange ==
    \A j \in Jobs : \A k \in OutOfRangeClips(j) :
        tempDir.files[segmentAudioFiles[j][k].file]
            = segmentAudioFiles[j][k].originalDuration

\* C14, amended: a clip that needed a factor outside [0.5, 2.0] is scaled by
\* the nearer bound: it ends at half its synthesized duration (factor 2.0)
\* or at twice that duration (factor 0.5), neither untouched nor on target.
C14_ClampedScalingApplied ==
    \A j \in Jobs : \A k \in OutOfRangeClips(j) :
        LET clip == segmentAudioFiles[j][k]
            onDisk == tempDir.files[clip.file]
        IN  /\ onDisk # clip.originalDuration
            /\ onDisk # clip.duration
            /\ onDisk \in {clip.originalDuration \div 2,
                            clip.originalDuration * 2}

C14_Witness ==
    /\ apc["jobA"] = "concat"
    /\ Len(segmentAudioFiles["jobA"]) = 1
    /\ OutOfRangeClips("jobA") = {1}
    /\ segmentAudioFiles["jobA"][1].duration = 5000
    /\ segmentAudioFiles["jobA"][1].originalDuration = 15000
    /\ tempDir.files[SegmentFile("jobA", 0)] = 7500

\* C15: a measured clip goes to a tempo pass exactly when it is more than
\* 0.3 s off its target and the target is above 0.5 s.
C15_AdjustThreshold ==
    [][\A j \in Jobs :
         (apc[j] = "measure" /\ apc'[j] \notin {"measure", "fallback"})
         => (apc'[j] = "adjust"
               <=> /\ Abs(generatedDuration'[j]
                          - actualDuration[j] \div Len(segs[j])) > 300
                   /\ actualDuration[j] \div Len(segs[j]) > 500)
      ]_vars

\* C16: a segment whose text is empty or missing never reaches the
\* synthesizer and never fails the run; once its iteration is over a silence
\* placeholder of the segment's target duration stands in its place.
C16_EmptyTextBecomesSilence ==
    \A j \in Jobs :
        /\ asmErr[j] # "type_error"
        /\ apc[j] \in {"synth", "measure", "adjust"}
             => segs[j][segIndex[j] + 1] = "text"
        /\ \A k \in 1..Len(segmentAudioFiles[j]) :
             segs[j][k] \in {"empty", "missing"}
                => /\ segmentAudioFiles[j][k].isSilence
                   /\ segmentAudioFiles[j][k].duration =
                        actualDuration[j] \div Len(segs[j])

\* C17: generateTTS called with no segments never settles with the path of
\* an audio track.
C17_ZeroSegmentsIsError ==
    \A j \in Jobs :
        Len(segs[j]) = 0 => ttsResult[j].status # "returned"

\* C18: what a successful assembly returns carries, next to the path, the
\* target and achieved durations and the counts of successful and
\* placeholder segments; the counts add up to the number of segments and the
\* placeholder count is the number of segments that were empty or failed.
C18_AssemblyReport ==
    \A j \in Jobs :
        apc[j] = "returned"
        => /\ {"path", "targetDuration", "achievedDuration", "successful",
               "placeholder"} \subseteq DOMAIN ttsResult[j]
           /\ ttsResult[j].targetDuration = actualDuration[j]
           /\ ttsResult[j].achievedDuration = outFile[j]
           /\ ttsResult[j].successful + ttsResult[j].placeholder = Len(segs[j])
           /\ ttsResult[j].placeholder =
                Cardinality({k \in 1..Len(segs[j]) :
                    \/ segs[j][k] # "text"
                    \/ \E f \in segFailures[j] : f[1] = k - 1})

\* C19: once generateSegmentBasedTTS has returned or thrown, none of the
\* run's clips, file lists or tempo temporaries is left on disk.
C19_GuaranteedCleanup ==
    \A j \in Jobs :
        apc[j] \in {"returned", "threw"}
        => /\ \A f \in DOMAIN tempDir.files : f[1] # j
           /\ ~outputTemp[j]

----------------------------------------------------------------------------
(* Properties of the caption service (SpecCap)                             *)

----------------------------------------------------------------------------
(* Properties of generateCaptions (specifications SpecCapDur and SpecCap)  *)

\* C21: the duration generateCaptions derives the timestamps from is the
\* achieved duration of the dubbed track of the same job, never the
\* duration of a source video, of another job's media, or a constant.
C21_DurationIsOwnDubTrack ==
    capJob # "none"
    => /\ outFile[capJob] >= 0
       /\ capDuration = outFile[capJob] * 1000

\* The segments of the input whose text is not empty after cleaning.
SurvivingSegments == {k \in 1..capSegments : capTexts[k] = "text"}

\* C22: every segment whose text is non-empty after cleaning appears in
\* exactly one cue of the WebVTT file and exactly one cue of the SRT file,
\* the cues follow the order of the segments, and no cue stems from
\* anything else.
C22_OneCuePerSurvivingSegment ==
    capFiles.written
    => \A cues \in {capFiles.webvtt.cues, capFiles.srt.cues} :
         /\ \A k \in SurvivingSegments :
              Cardinality({c \in 1..Len(cues) :
                             cues[c].text = CaptionText(k)}) = 1
         /\ \A c \in 1..Len(cues) :
              \E k \in SurvivingSegments : cues[c].text = CaptionText(k)
         /\ \A c, d \in 1..Len(cues) :
              c < d => cues[c].text[2] < cues[d].text[2]

C22_Witness ==
    /\ capFiles.written
    /\ capTexts = <<"text", "empty", "text">>
    /\ Len(capFiles.webvtt.cues) = 2
    /\ Len(capFiles.srt.cues) = 2
    /\ capFiles.srt.cues[2].text = CaptionText(3)

\* Start and end (microseconds) of the segment at position k of a list of
\* capSegments segments spread over capDuration.
UniformStart(k) == RoundMs((k - 1) * capDuration, capSegments, fpTieUp)
UniformEnd(k) ==
    IF k = capSegments THEN RoundMs(capDuration, 1, fpTieUp)
    ELSE RoundMs(k * capDuration, capSegments, fpTieUp)

\* C23: dropping the segments with empty text does not shift the timing:
\* start and end of every surviving cue are those of its position in the
\* full segment list, the length of the full list and the duration.
C23_DroppingDoesNotShiftTiming ==
    capFiles.written
    => /\ \A c \in 1..Len(capFiles.webvtt.cues) :
            LET cue == capFiles.webvtt.cues[c]
                k == cue.text[2]
            IN  /\ cue.start
                     = FormatWebVTTTime(UniformStart(k), (k - 1) \in fpLossy)
                /\ cue.end = FormatWebVTTTime(UniformEnd(k), k \in fpLossy)
       /\ \A c \in 1..Len(capFiles.srt.cues) :
            LET cue == capFiles.srt.cues[c]
                k == cue.text[2]
            IN  /\ cue.start
                     = FormatSRTTime(UniformStart(k), (k - 1) \in fpLossy)
                /\ cue.end = FormatSRTTime(UniformEnd(k), k \in fpLossy)

C23_Witness ==
    /\ capFiles.written
    /\ capTexts = <<"empty", "text">>
    /\ capDuration = 6000000
    /\ Len(capFiles.webvtt.cues) = 1
    /\ capFiles.webvtt.cues[1].start.secs = 3
    /\ capFiles.srt.cues[1].end.secs = 6

\* C24: when every segment of a non-empty list has empty text,
\* generateCaptions fails instead of completing with files without a cue.
C24_AllEmptyTextFails ==
    (capResult = "returned" /\ capSegments > 0)
    => SurvivingSegments # {}

\* C25: generateCaptions fails whenever the WebVTT file or the SRT file is
\* smaller than the byte-size floor.
C25_SizeFloorOnBothFiles ==
    capResult = "returned"
    => /\ capFiles.webvtt.bytes >= CaptionSizeFloor
       /\ capFiles.srt.bytes >= CaptionSizeFloor

\* C26: a second run of generateCaptions with the same texts and the same
\* duration, at a later moment, writes byte-identical WebVTT and SRT files.
C26_SecondRunByteIdentical ==
    capPrev.written
    => /\ capFiles.webvtt = capPrev.webvtt
       /\ capFiles.srt = capPrev.srt

\* C27: the cue identifiers of a file are 1..k without a gap, also when
\* segments of the input were dropped.
C27_SequentialCueIds ==
    capFiles.written
    => \A cues \in {capFiles.webvtt.cues, capFiles.srt.cues} :
         \A c \in 1..Len(cues) : cues[c].id = c

\* The same instant, written with '.' in WebVTT and with ',' in SRT.
SameInstant(v, r) ==
    /\ v.hours = r.hours
    /\ v.minutes = r.minutes
    /\ v.secs = r.secs
    /\ v.milliseconds = r.milliseconds
    /\ v.separator = "."
    /\ r.separator = ","

\* C28: the WebVTT file and the SRT file describe the same cues: the same
\* number of cues, and cue by cue the same identifier, text, start and end;
\* they differ in the header and in the decimal separator only.
C28_SameCuesInBothFormats ==
    capFiles.written
    => LET v == capFiles.webvtt.cues
           r == capFiles.srt.cues
       IN  /\ Len(v) = Len(r)
           /\ \A c \in 1..Len(v) :
                /\ v[c].id = r[c].id
                /\ v[c].text = r[c].text
                /\ SameInstant(v[c].start, r[c].start)
                /\ SameInstant(v[c].end, r[c].end)

C28_Witness ==
    /\ capFiles.written
    /\ capDuration = 3333333
    /\ Len(capFiles.srt.cues) = 2
    /\ capFiles.webvtt.cues[1].end.milliseconds = 666
    /\ capFiles.srt.cues[2].start.milliseconds = 666
    /\ capFiles.srt.cues[2].end.milliseconds = 333

----------------------------------------------------------------------------
(* Properties of the job record (specifications SpecOps and Spec)          *)

\* The list a is the beginning of the list b.
IsPrefix(a, b) == Len(a) <= Len(b) /\ SubSeq(b, 1, Len(a)) = a

\* C29: the error list of a job is append-only: whatever operation runs
\* (the catch block of a stage, the failure transition of processVideo, the
\* resume script), the list before it is a prefix of the list after it; and
\* every failure transition of processVideo appends the message of the
\* error it caught, which is the failing stage's error when a stage threw.
C29_ErrorListAppendOnly ==
    [][\A j \in Jobs :
         /\ IsPrefix(db[j].errorMessages, db'[j].errorMessages)
         /\ (pc[j] = "catch" /\ db'[j].status = "failed")
            => /\ db'[j].errorMessages = Append(db[j].errorMessages, err[j])
               /\ stageThrew[j] # NoError => err[j] = stageThrew[j]]_vars

C29_Witness ==
    /\ resumePc = "exited"
    /\ db[ResumeJob].errorMessages = <<StageNote(3), StageError(3), ResumeNote>>

\* The completion timestamps of the stages.
CompletionStamps == UNION {StageStamps(k) : k \in 1..NumStages}

\* C30: the failure transition leaves every artifact field untouched: from
\* the moment a stage fails until processVideo ends, the artifact paths,
\* the translated text and the completion timestamps recorded by the
\* stages that succeeded earlier stay as they were.
C30_FailureKeepsArtifacts ==
    [][\A j \in Jobs :
         pc'[j] \in {"catch", "rejected"}
         => /\ db'[j].artifacts = db[j].artifacts
            /\ db'[j].stamps \cap CompletionStamps
                 = db[j].stamps \cap CompletionStamps]_vars

C30_Witness ==
    \E j \in Jobs :
        /\ pc[j] = "rejected"
        /\ db[j].status = "failed"
        /\ stageThrew[j] = StageError(5)
        /\ {"translatedText", "tts_audio_path"} \subseteq db[j].artifacts
        /\ "caption_file_path" \notin db[j].artifacts
        /\ {"translation_completed_at", "tts_completed_at"} \subseteq db[j].stamps

\* C31: processVideo is the only writer of the status, the step and the
\* step-completion timestamps of a job: while a stage service runs, none of
\* the three changes in the job's record.
C31_OrchestratorSoleWriter ==
    [][\A j \in Jobs :
         pc[j] = "stage"
         => /\ db'[j].status = db[j].status
            /\ db'[j].step = db[j].step
            /\ db'[j].stamps \cap CompletionStamps
                 = db[j].stamps \cap CompletionStamps]_vars

\* C32: for each of the six stages, the write of processVideo that follows
\* the stage's success advances the step and records a completion timestamp
\* of that stage: a record whose step lies beyond stage k holds a
\* completion timestamp of stage k.
C32_EverySuccessTimestamped ==
    \A j \in Jobs : \A k \in 1..NumStages :
        (db[j].step \in StepChain /\ StepRank(db[j].step) > k)
        => StageStamps(k) \cap db[j].stamps # {}

----------------------------------------------------------------------------
(* Termination of the assembler (specification SpecAsmFair)                *)

\* C33: every call of the assembler into an external tool carries a
\* timeout and a timeout is the failure of that call, so that for every
\* finite segment list generateSegmentBasedTTS, once started, eventually
\* returns or throws.
C33_AssemblyTerminates ==
    \A j \in Jobs :
        (apc[j] = "begin" /\ Len(segs[j]) > 0)
            ~> (apc[j] \in {"returned", "threw"})

C33_Witness ==
    /\ apc["jobA"] = "returned"
    /\ Len(segs["jobA"]) = MaxSegments
    /\ \E f \in segFailures["jobA"] : f[2] = "synthesis"
    /\ \E f \in segFailures["jobA"] : f[2] = "measurement"

----------------------------------------------------------------------------
(* Outcome of processVideo (specification Spec)                            *)

\* C34: whenever a run of processVideo has ended, the persisted status is
\* terminal and agrees with the outcome: completed when the run returned,
\* failed when it threw; no ended run leaves the job in status processing.
C34_TerminalStatusAgrees ==
    \A j \in Jobs :
        /\ pc[j] = "done" => db[j].status = "completed"
        /\ pc[j] = "rejected" => db[j].status = "failed"

----------------------------------------------------------------------------
(* Properties of the translation service (specification SpecTrans)         *)

\* The returned segment list has the shape of the input list: one entry per
\* segment, in order, each with the start and end of its input segment.
SameShape(out, in) ==
    /\ Len(out) = Len(in)
    /\ \A i \in 1..Len(in) :
        out[i].start = in[i].start /\ out[i].end = in[i].end

\* C35: on every returning path of translateText (LibreTranslate, the Google
\* fallback with its per-segment errors and rate limiting, the skipped
\* translation, the original-text fallback) the returned segment list has
\* exactly one entry per input segment, in the same order, each carrying the
\* start and end of its input segment.
C35_SegmentShapePreserved ==
    \A j \in Jobs : tpc[j] = "returned" => SameShape(trOut[j], trIn[j])

\* The order of the services inside one call of translateText.
LibreFirst(j) ==
    (tpc[j] = "absent" /\ trCase[j] = "valid" /\ tpc'[j] # "absent")
        => tpc'[j] = "libre"
GoogleOnlyAfterLibre(j) ==
    (tpc'[j] = "google" /\ tpc[j] # "google") => tpc[j] = "libre"
FallbackOnlyAfterGoogle(j) ==
    (tpc'[j] = "fallback" /\ tpc[j] # "fallback")
        => tpc[j] \in {"google", "full", "save"}
FallbackIsOriginal(j) ==
    (tpc[j] = "fallback" /\ tpc'[j] = "returned")
        => /\ trOut'[j] = trIn[j]
           /\ trService'[j] = "enhanced-fallback-original-text"

\* What the store can make translateText throw.
StoreErrors == {"store"}

\* C36 as stated: for a valid transcription translateText tries LibreTranslate
\* first, calls Google only after LibreTranslate failed, returns the original
\* text and segments when both failed, and throws only for invalid input, a
\* missing job or an unsupported target language.
C36_ThrowsOnlyForInput ==
    /\ [][\A j \in Jobs : /\ LibreFirst(j)
                          /\ GoogleOnlyAfterLibre(j)
                          /\ FallbackOnlyAfterGoogle(j)
                          /\ FallbackIsOriginal(j)]_vars
    /\ [](\A j \in Jobs : tpc[j] = "threw" => trErr[j] \in InputErrors)

\* C36: once the job record has been read, a valid transcription goes to
\* LibreTranslate first; Google is called only after LibreTranslate failed;
\* the original-text fallback is entered only after Google failed too and
\* returns the original segments; translateText throws only an error of its
\* input checks or a failure of the job store, never a failure of the two
\* translation services.
C36_FallbackChain ==
    /\ [][\A j \in Jobs : /\ (tpc[j] = "absent" /\ trCase[j] = "valid"
                              /\ tpc'[j] # "absent")
                                 => \/ tpc'[j] = "libre"
                                    \/ tpc'[j] = "catch" /\ trErr'[j] = "store"
                          /\ GoogleOnlyAfterLibre(j)
                          /\ FallbackOnlyAfterGoogle(j)
                          /\ FallbackIsOriginal(j)]_vars
    /\ [](\A j \in Jobs :
            tpc[j] = "threw" => trErr[j] \in InputErrors \cup StoreErrors)

\* Both services failed for a job with segments and it got its original
\* segments back.
C36_Witness ==
    \E j \in Jobs :
        /\ tpc[j] = "returned"
        /\ trService[j] = "enhanced-fallback-original-text"
        /\ trErr[j] \in {"google_error", "google_rate_limited"}
        /\ Len(trIn[j]) = MaxTrSegments
        /\ trOut[j] = trIn[j]

\* C37: the counter dailyGoogleTranslations never exceeds 25 and no Google
\* request is issued once it has reached 25.
C37_DailyQuotaRespected ==
    /\ dailyGoogleTranslations <= DailyLimit
    /\ ~requestAtLimit

\* The errors a job holds after Google answered with a rate limit.
RateLimitErrors == {"google_rate_limited", "segment_rate_limited"}

\* C38: a rate-limit answer marks the service blocked until six hours later;
\* a call of translateWithGoogleEnhanced that starts while the block holds
\* (same day, before blockUntil) fails without a request, whichever job makes
\* it; the mark is taken back only by the daily reset, and blockUntil moves
\* only to six hours from now or, on the reset, to null.
C38_BackoffHonoured ==
    [][\A j \in Jobs :
         /\ (trErr'[j] \in RateLimitErrors /\ trErr'[j] # trErr[j])
               => googleBlocked' /\ blockUntil' = now + BlockHours
         /\ (/\ tpc[j] = "google" /\ tpc'[j] # "google"
             /\ googleBlocked /\ blockUntil # NoBlock /\ now < blockUntil
             /\ DateString(now) = lastResetDate)
               => /\ tpc'[j] = "fallback"
                  /\ trErr'[j] = "google_blocked"
                  /\ dailyGoogleTranslations' = dailyGoogleTranslations
         /\ (googleBlocked /\ ~googleBlocked')
               => DateString(now) # lastResetDate
         /\ blockUntil' # blockUntil
               => \/ blockUntil' = now + BlockHours
                  \/ blockUntil' = NoBlock /\ DateString(now) # lastResetDate
      ]_vars

\* One job was rate limited and the other job's later call was refused.
C38_Witness ==
    \E j, k \in Jobs :
        /\ j # k
        /\ trErr[j] \in RateLimitErrors
        /\ trErr[k] = "google_blocked"
        /\ googleBlocked
        /\ now < blockUntil
        /\ now > blockUntil - BlockHours

----------------------------------------------------------------------------
(* Properties of the caption helpers (SpecWrap, SpecValidate)              *)

\* The lines of a wrapped caption text.
WrappedLines(text) == Split(text, "\n")

\* The wrapped text with every line break turned back into a space.
Unwrapped(text) == [k \in 1..Len(text) |-> IF text[k] = "\n" THEN " " ELSE text[k]]

\* A line that is one single word.
SingleWord(line) == \A k \in 1..Len(line) : line[k] # " "

\* C39: for a single-spaced text breakLongLines never splits a word (each
\* line is a run of whole words of the input), every line has at most 40
\* characters unless it is one single word longer than that, and turning the
\* line breaks back into spaces gives the input exactly; the cue keeps the
\* timestamps of its segment.
C39_WrapKeepsWords ==
    wrapCue.built =>
        /\ Unwrapped(wrapCue.text) = wrapSegment.text
        /\ \A n \in 1..Len(WrappedLines(wrapCue.text)) :
            LET line == WrappedLines(wrapCue.text)[n]
            IN  /\ Len(line) <= MaxLineLength \/ SingleWord(line)
                /\ line # <<>>
                /\ line[1] # " " /\ line[Len(line)] # " "
        /\ wrapCue.start = FormatWebVTTTime(wrapSegment.start, FALSE)
        /\ wrapCue.end = FormatWebVTTTime(wrapSegment.end, FALSE)

\* A text of three words was wrapped into a line of two words and a line of
\* one word that is longer than 40 characters.
C39_Witness ==
    /\ wrapCue.built
    /\ Len(WrappedLines(wrapCue.text)) = 2
    /\ \E n \in 1..2 :
        /\ Len(WrappedLines(wrapCue.text)[n]) > MaxLineLength
        /\ SingleWord(WrappedLines(wrapCue.text)[n])
    /\ \E n \in 1..2 : ~SingleWord(WrappedLines(wrapCue.text)[n])

\* A segment that is valid on its own.
IndividuallyValid(s) ==
    /\ s.startIsNumber
    /\ s.endIsNumber
    /\ s.text = "string"
    /\ s.start < s.end

\* C40: validSegments holds exactly the segments that are valid on their own,
\* in input order, validCount is their number, and isValid holds exactly if
\* validCount equals originalCount.
C40_ValidatedOneByOne ==
    (valResult.called /\ valSegments.isArray) =>
        /\ valResult.validSegments = SelectSeq(valSegments.items, IndividuallyValid)
        /\ valResult.validCount = Len(valResult.validSegments)
        /\ valResult.isValid <=> (valResult.validCount = valResult.originalCount)

====
